---- MODULE Spec2Model ----
(***************************************************************************)
(* Upload ingestion pipeline and job-status state machine of the           *)
(* flashcards repository: handleUpload, updateJobStatus, loadDocuments,    *)
(* generateFlashcards, persistFlashcards (upload_docs module, kept in      *)
(* src/src/components/ui/input.tsx), with the status tracker doubles of    *)
(* its test-suite (src/src/features/scraping/services/course.service.ts).  *)
(***************************************************************************)
EXTENDS Integers, Sequences, FiniteSets, TLC

VARIABLES
    trackerKind,    \* which JobStatusTracker implementation is injected
    statusMap,      \* the tracker's store: job id -> last status set ("none": no record)
    payloadMap,     \* the tracker's store: job id -> payload of the last set
    setLog,         \* per job, the statuses passed to tracker.set, in call order
    updCall,        \* the latest updateJobStatus call and how it ended
    pc,             \* position of the handleUpload invocation
    request,        \* the Request being handled (method, formData presence)
    deps,           \* the injected options of the invocation (flashcardOptions)
    rawFiles,       \* formData.getAll('files')
    files,          \* entries that passed validation
    errors,         \* per-entry validation messages
    jobId,          \* the job id generated for the invocation (<<>> before)
    uploadedFiles,  \* UploadedFile records returned by storage.saveFile
    documents,      \* documents returned by loadDocuments
    chunks,         \* chunks returned by splitter.splitDocuments
    flashcards,     \* flashcards returned by generateFlashcards
    caught,         \* the value thrown by a stage and caught at the orchestrator boundary
    response,       \* the Response handleUpload resolved to
    calls,          \* collaborator calls made by the current invocation
    repoStore,      \* what repository.saveFlashcards has stored
    racePc,         \* per concurrent updateJobStatus call: idle / got (between get and set)
    raceReq,        \* per concurrent call: the status it requests
    racePrev,       \* per concurrent call: what its tracker.get returned
    libInput,       \* what a library function is called with directly
    libCall,        \* the library function called directly, its arguments and its result
    configFiles,    \* per path, what the file holds that loadLLMConfig reads and parses
    env,            \* the environment variables that are set (process.env)
    cachedConfig,   \* llm_config.ts: cachedConfig
    cachedPath,     \* llm_config.ts: cachedPath
    deckStore,      \* the 'decks' collection: per document id, the stored deck
    deckReq,        \* per concurrent POST /api/decks request: its position and locals
    deckLog,        \* the POST /api/decks requests that returned status ok, in order
    deckOverlap,    \* whether a request has started while another was between its
                    \* getDoc and its write
    deckPosts,      \* the number of POST /api/decks requests started
    configCalls,    \* the direct calls of loadLLMConfig and resetLLMConfigCache, in order
    documentsCol,   \* the 'documents' collection, in the order the documents were added
    reviewsCol,     \* the 'document_reviews' collection, in the order the records were added
    docPage,        \* per open DocumentViewPage: user, document state, handler position
    adminPage       \* per open AdminPage: reviews state, handler position

trackerVars == <<trackerKind, statusMap, payloadMap, setLog, updCall>>
uploadVars == <<pc, request, deps, rawFiles, files, errors, jobId, uploadedFiles,
                documents, chunks, flashcards, caught, response, calls, repoStore>>
raceVars == <<racePc, raceReq, racePrev>>
llmVars == <<configFiles, env, cachedConfig, cachedPath>>
deckVars == <<deckStore, deckReq, deckLog, deckOverlap, deckPosts>>
modVars == <<documentsCol, reviewsCol, docPage, adminPage>>
libVars == <<libInput, libCall, llmVars, deckVars, configCalls, modVars>>
vars == <<trackerVars, uploadVars, raceVars, libVars>>

-----------------------------------------------------------------------------
(* Bounds of the model *)

MaxFiles == 2           \* entries under the 'files' field of one request
MaxEntries == 2         \* entries of the JSON array in an LLM response
MaxChunks == 2          \* chunks the splitter returns
MaxHist == 4            \* tracker.set calls recorded per job
MaxRawLen == 5          \* pieces of a raw LLM text given to parseFlashcardsResponse
MaxSpacedLen == 2       \* pieces of a raw LLM text with white space among them
MaxCards == 2           \* the maxCards argument of parseFlashcardsResponse
MaxDocs == 2            \* raw documents one loader returns
MaxPosts == 2           \* POST /api/decks requests started
MaxConfigCalls == 3
MaxUploads == 1      \* documents uploaded
MaxReviews == 2      \* review requests submitted     \* direct calls of loadLLMConfig and resetLLMConfigCache

-----------------------------------------------------------------------------
(* Job status state machine *)

JobStatus == {"queued", "parsing", "generating", "complete", "failed"}

\* Job ids: UploadJob is the id the id generator hands to the handleUpload invocation,
\* the others are jobs driven by direct updateJobStatus calls only.
UploadJob == "job-1"
ExternalJob == "job-x"
ExternalJobs == {"job-x", "job-y"}
JobIds == {UploadJob} \cup ExternalJobs

NoPayload == [undefined |-> TRUE]

TableTerminalReopens ==
    [queued |-> {"parsing", "failed"},
     parsing |-> {"generating", "failed"},
     generating |-> {"complete", "failed"},
     complete |-> {},
     failed |-> {"queued"}]

TableSkipsParsing ==
    [queued |-> {"parsing", "generating", "failed"},
     parsing |-> {"generating", "failed"},
     generating |-> {"complete", "failed"},
     complete |-> {},
     failed |-> {}]

ALLOWED_STATUS_TRANSITIONS ==
    [queued |-> {"parsing", "failed"},
     parsing |-> {"generating", "failed"},
     generating |-> {"complete", "failed"},
     complete |-> {},
     failed |-> {}]

TrackerGetUndefined(j) == "none"

\* tracker.get as updateJobStatus sees it: "none" stands for undefined.
\*   faithful: get returns the last status set (the updateJobStatus test's tracker)
\*   stub:     get resolves undefined, set stores nothing (the handleUpload test's tracker)
\*   noget:    the optional get is absent; set stores
\*   down:     a faithful tracker while its store cannot be reached: get rejects
TrackerGet(j) ==
    IF trackerKind = "faithful" THEN statusMap[j] ELSE "none"

CheckNoTransitionCheck(previous, status) ==
    IF previous = "none" /\ status # "queued" THEN "must_start_queued" ELSE "ok"

\* The checks of updateJobStatus on what tracker.get returned: "ok" (tracker.set is
\* called next) or the error thrown.
CheckTransition(previous, status) ==
    IF previous = "none" /\ status # "queued" THEN "must_start_queued"
    ELSE IF previous # "none" /\ status \notin ALLOWED_STATUS_TRANSITIONS[previous]
         THEN "invalid_transition"
         ELSE "ok"

\* How updateJobStatus(j, status, ...) ends when nothing runs between its get and its set.
UpdateOutcome(j, status) ==
    IF trackerKind = "down" THEN "tracker_rejects"
    ELSE CheckTransition(TrackerGet(j), status)

\* The Error thrown by updateJobStatus.
StatusError(j, status) ==
    IF UpdateOutcome(j, status) = "tracker_rejects"
    THEN [isError |-> TRUE, message |-> [text |-> "status store unavailable"]]
    ELSE IF UpdateOutcome(j, status) = "must_start_queued"
    THEN [isError |-> TRUE,
          message |-> [text |-> "must start in queued state", job |-> j]]
    ELSE [isError |-> TRUE,
          message |-> [text |-> "Invalid status transition",
                       from |-> TrackerGet(j), to |-> status]]

\* tracker.set(j, status, payload)
TrackerSet(j, status, payload) ==
    /\ setLog' = [setLog EXCEPT ![j] = Append(@, status)]
    /\ IF trackerKind = "stub"
       THEN UNCHANGED <<statusMap, payloadMap>>
       ELSE /\ statusMap' = [statusMap EXCEPT ![j] = status]
            /\ payloadMap' = [payloadMap EXCEPT ![j] = payload]

\* await updateJobStatus(j, status, payload, tracker), get and set not interleaved
\* with another writer of the same job.
DoUpdateJobStatus(j, status, payload) ==
    /\ UpdateOutcome(j, status) = "ok" => Len(setLog[j]) < MaxHist
    /\ updCall' = [jobId |-> j, status |-> status, outcome |-> UpdateOutcome(j, status)]
    /\ IF UpdateOutcome(j, status) = "ok"
       THEN TrackerSet(j, status, payload)
       ELSE UNCHANGED <<statusMap, payloadMap, setLog>>
    /\ UNCHANGED trackerKind

TrackerInit(kinds) ==
    /\ trackerKind \in kinds
    /\ statusMap = [j \in JobIds |-> "none"]
    /\ payloadMap = [j \in JobIds |-> NoPayload]
    /\ setLog = [j \in JobIds |-> <<>>]
    /\ updCall = [jobId |-> ExternalJob, status |-> "none", outcome |-> "none"]

\* The store behind the status tracker becomes unreachable, or reachable again.
TrackerOutage ==
    /\ trackerKind \in {"faithful", "down"}
    /\ pc \notin {"idle", "done", "rejected"}
    /\ trackerKind' = IF trackerKind = "faithful" THEN "down" ELSE "faithful"
    /\ UNCHANGED <<statusMap, payloadMap, setLog, updCall, uploadVars, raceVars, libVars>>

-----------------------------------------------------------------------------
(* Direct callers of the exported updateJobStatus *)

ExternalPayloads == {NoPayload, [error |-> [text |-> "cancelled by operator"]]}

\* updateJobStatus(j, status, payload, tracker) called on a job no handleUpload
\* invocation drives. Such calls and the steps of handleUpload touch different jobs and
\* commute, so they are taken before the invocation starts.
UpdateJobStatusCall(j, status, payload) ==
    /\ pc = "idle"
    /\ j \in ExternalJobs
    /\ DoUpdateJobStatus(j, status, payload)
    /\ UNCHANGED <<uploadVars, raceVars, libVars>>

-----------------------------------------------------------------------------
(* Two updateJobStatus calls on the same job, interleaved at their awaits *)

Procs == {1, 2}
RaceJob == ExternalJob

\* const previous = tracker.get ? await tracker.get(jobId) : undefined
RaceGet(p, status) ==
    /\ racePc[p] = "idle"
    /\ racePc' = [racePc EXCEPT ![p] = "got"]
    /\ raceReq' = [raceReq EXCEPT ![p] = status]
    /\ racePrev' = [racePrev EXCEPT ![p] = TrackerGet(RaceJob)]
    /\ UNCHANGED <<trackerVars, uploadVars, libVars>>

\* the two checks on previous, then await tracker.set(jobId, status, payload)
RaceSet(p) ==
    /\ racePc[p] = "got"
    /\ CheckTransition(racePrev[p], raceReq[p]) = "ok" => Len(setLog[RaceJob]) < MaxHist
    /\ updCall' = [jobId |-> RaceJob, status |-> raceReq[p],
                   outcome |-> CheckTransition(racePrev[p], raceReq[p])]
    /\ IF CheckTransition(racePrev[p], raceReq[p]) = "ok"
       THEN TrackerSet(RaceJob, raceReq[p], NoPayload)
       ELSE UNCHANGED <<statusMap, payloadMap, setLog>>
    /\ racePc' = [racePc EXCEPT ![p] = "idle"]
    /\ UNCHANGED <<trackerKind, raceReq, racePrev, uploadVars, libVars>>

RaceInit ==
    /\ racePc = [p \in Procs |-> "idle"]
    /\ raceReq = [p \in Procs |-> "queued"]
    /\ racePrev = [p \in Procs |-> "none"]

-----------------------------------------------------------------------------
(* handleUpload: request validation *)

DEFAULT_ALLOWED_MIME_TYPES ==
    {"application/pdf",
     "application/vnd.openxmlformats-officedocument.wordprocessingml.document",
     "text/plain", "text/csv", "image/png", "image/jpeg"}

DEFAULT_MAX_FILE_SIZE_BYTES == 25 * 1024 * 1024

\* request.method values; toUpperCase maps "post" to "POST".
Methods == {"POST", "post", "GET"}
toUpperCase(m) == IF m = "post" THEN "POST" ELSE m

\* Values under the 'files' field: File objects, or a string field value.
NonFile == [kind |-> "string", name |-> "", type |-> "", size |-> 0]
FileEntries ==
    {[kind |-> "file", name |-> n, type |-> t, size |-> sz] :
        n \in {"notes"},
        t \in {"text/plain", "image/gif"},
        sz \in {DEFAULT_MAX_FILE_SIZE_BYTES, DEFAULT_MAX_FILE_SIZE_BYTES + 1}}
Entries == {NonFile} \cup FileEntries
RawFileLists == UNION {[1..n -> Entries] : n \in 0..MaxFiles}

\* deps.flashcardOptions as injected: {} or {maxCards: 1} (tone stands for the rest).
FlashcardOptionsSet == {[tone |-> "concise"], [tone |-> "concise", maxCards |-> 1]}

\* A member that is undefined, and a topic text; deps.flashcardOptions with a topic
Undefined == [undefined |-> TRUE]
Topic(text) == [text |-> text]
TopicOptionsSet ==
    {[tone |-> "concise"], [tone |-> "concise", topic |-> Topic("Biology")],
     [tone |-> "detailed", maxCards |-> 1, topic |-> Topic("Biology")]}

\* formData.get('topic'): no such field, an empty value, a text
NoField == [kind |-> "null"]
TopicFields == {NoField, [kind |-> "field", value |-> ""],
                [kind |-> "field", value |-> "Chemistry"]}

\* const topic = formData.get('topic') ? String(formData.get('topic')) : undefined
topicOf(field) ==
    IF field = NoField \/ field.value = "" THEN Undefined ELSE Topic(field.value)

\* const flashcardOptions = { ...deps.flashcardOptions, topic }
flashcardOptionsOf(injected, topic) == [topic |-> topic] @@ injected

EntryCheckNoTypeCheck(entry) ==
    IF entry.kind # "file"
    THEN [ok |-> FALSE, message |-> [text |-> "Encountered non-file value in files payload"]]
    ELSE IF entry.size > DEFAULT_MAX_FILE_SIZE_BYTES
    THEN [ok |-> FALSE, message |-> [text |-> "exceeds size limit", name |-> entry.name]]
    ELSE [ok |-> TRUE]

EntryCheckSizeOffByOne(entry) ==
    IF entry.kind # "file"
    THEN [ok |-> FALSE, message |-> [text |-> "Encountered non-file value in files payload"]]
    ELSE IF entry.type \notin DEFAULT_ALLOWED_MIME_TYPES
    THEN [ok |-> FALSE,
          message |-> [text |-> "has unsupported type", name |-> entry.name, type |-> entry.type]]
    ELSE IF entry.size >= DEFAULT_MAX_FILE_SIZE_BYTES
    THEN [ok |-> FALSE, message |-> [text |-> "exceeds size limit", name |-> entry.name]]
    ELSE [ok |-> TRUE]

\* The body of the validation loop for one entry: accepted, or the message pushed.
EntryCheck(entry) ==
    IF entry.kind # "file"
    THEN [ok |-> FALSE, message |-> [text |-> "Encountered non-file value in files payload"]]
    ELSE IF entry.type \notin DEFAULT_ALLOWED_MIME_TYPES
    THEN [ok |-> FALSE,
          message |-> [text |-> "has unsupported type", name |-> entry.name, type |-> entry.type]]
    ELSE IF entry.size > DEFAULT_MAX_FILE_SIZE_BYTES
    THEN [ok |-> FALSE, message |-> [text |-> "exceeds size limit", name |-> entry.name]]
    ELSE [ok |-> TRUE]

\* for (const entry of rawFiles) { ... } from entry i on, with files fs and errors es so far.
RECURSIVE ValidateFrom(_, _, _, _)
ValidateFrom(rf, i, fs, es) ==
    IF i > Len(rf) THEN [files |-> fs, errors |-> es]
    ELSE IF EntryCheck(rf[i]).ok
         THEN ValidateFrom(rf, i + 1, Append(fs, rf[i]), es)
         ELSE ValidateFrom(rf, i + 1, fs, Append(es, EntryCheck(rf[i]).message))

Validate(rf) == ValidateFrom(rf, 1, <<>>, <<>>)

InlineId == [inline |-> TRUE]
StoredId(i) == [stored |-> i]

\* toFileSummary of a File and of an UploadedFile
FileSummary(file) ==
    [id |-> InlineId, name |-> file.name, size |-> file.size, mimeType |-> file.type]
UploadedSummary(uf) ==
    [id |-> uf.id, name |-> uf.name, size |-> uf.size, mimeType |-> uf.mimeType]

Summaries(fs) == [i \in 1..Len(fs) |-> FileSummary(fs[i])]
UploadedSummaries(ufs) == [i \in 1..Len(ufs) |-> UploadedSummary(ufs[i])]

jsonResponse(body, status) == [status |-> status, body |-> body]

NoResponse == [status |-> 0, body |-> [pending |-> TRUE]]
NoCaught == [stage |-> "none", isError |-> FALSE, message |-> [text |-> "none"]]
NoCalls ==
    [idGenerator |-> 0, get |-> 0, set |-> 0, saveFile |-> <<>>, loaderFactory |-> 0,
     load |-> 0, splitDocuments |-> 0, claude |-> 0, saveFlashcards |-> 0,
     prompt |-> [undefined |-> TRUE]]

\* What a collaborator may throw: an Error with a message, or a value that is no Error.
Thrown(stage) ==
    {[stage |-> stage, isError |-> TRUE, message |-> [text |-> "failure", of |-> stage]],
     [stage |-> stage, isError |-> FALSE, message |-> [text |-> "not an Error", of |-> stage]]}

\* The tracker.get and tracker.set calls one updateJobStatus(j, status) makes.
StatusCalls(c, j, status) ==
    [c EXCEPT !.get = @ + (IF trackerKind = "noget" THEN 0 ELSE 1),
              !.set = @ + (IF UpdateOutcome(j, status) = "ok" THEN 1 ELSE 0)]

UploadInit ==
    /\ pc = "idle"
    /\ request = [method |-> "GET", hasFormData |-> FALSE, topic |-> NoField]
    /\ deps = [flashcardOptions |-> [tone |-> "concise"]]
    /\ rawFiles = <<>>
    /\ files = <<>>
    /\ errors = <<>>
    /\ jobId = <<>>
    /\ uploadedFiles = <<>>
    /\ documents = <<>>
    /\ chunks = <<>>
    /\ flashcards = <<>>
    /\ caught = NoCaught
    /\ response = NoResponse
    /\ calls = NoCalls
    /\ repoStore = <<>>

\* handleUpload(request, deps), up to `await request.formData()`.
HandleUploadStart(method, hasFormData, options) ==
    /\ pc = "idle"
    /\ request' = [method |-> method, hasFormData |-> hasFormData, topic |-> NoField]
    /\ deps' = [flashcardOptions |-> options]
    /\ IF toUpperCase(method) # "POST"
       THEN /\ response' = jsonResponse([error |-> "Method not allowed"], 405)
            /\ pc' = "done"
       ELSE IF ~hasFormData
       THEN /\ response' = jsonResponse([error |-> "Invalid request payload"], 400)
            /\ pc' = "done"
       ELSE /\ response' = NoResponse
            /\ pc' = "formData"
    /\ UNCHANGED <<rawFiles, files, errors, jobId, uploadedFiles, documents, chunks,
                   flashcards, caught, calls, repoStore, trackerVars, raceVars, libVars>>

\* request.formData() rejects: nothing in handleUpload catches it.
FormDataRejects ==
    /\ pc = "formData"
    /\ pc' = "rejected"
    /\ UNCHANGED <<request, deps, rawFiles, files, errors, jobId, uploadedFiles,
                   documents, chunks, flashcards, caught, response, calls, repoStore,
                   trackerVars, raceVars, libVars>>

\* request.formData() resolves: the files are validated and a job id is generated.
FormDataResolves(rf, topicField) ==
    /\ pc = "formData"
    /\ rawFiles' = rf
    /\ request' = [request EXCEPT !.topic = topicField]
    /\ IF Len(rf) = 0
       THEN /\ response' = jsonResponse([error |-> "No files provided"], 400)
            /\ pc' = "done"
            /\ UNCHANGED <<files, errors, jobId, calls>>
       ELSE /\ files' = Validate(rf).files
            /\ errors' = Validate(rf).errors
            /\ IF Len(Validate(rf).files) = 0
               THEN /\ response' = jsonResponse([error |-> "No valid files found",
                                                 details |-> Validate(rf).errors], 400)
                    /\ pc' = "done"
                    /\ UNCHANGED <<jobId, calls>>
               ELSE /\ jobId' = <<UploadJob>>
                    /\ calls' = [calls EXCEPT !.idGenerator = @ + 1]
                    /\ pc' = "queue"
                    /\ UNCHANGED response
    /\ UNCHANGED <<deps, uploadedFiles, documents, chunks, flashcards, caught,
                   repoStore, trackerVars, raceVars, libVars>>

-----------------------------------------------------------------------------
(* handleUpload: the pipeline *)

CurrentJob == jobId[1]

\* await updateJobStatus(jobId, 'queued', { files: files.map(toFileSummary) }, ...),
\* before the try block.
QueueStep ==
    /\ pc = "queue"
    /\ DoUpdateJobStatus(CurrentJob, "queued", [files |-> Summaries(files)])
    /\ calls' = StatusCalls(calls, CurrentJob, "queued")
    /\ pc' = IF UpdateOutcome(CurrentJob, "queued") = "ok" THEN "save" ELSE "rejected"
    /\ UNCHANGED <<request, deps, rawFiles, files, errors, jobId, uploadedFiles,
                   documents, chunks, flashcards, caught, response, repoStore, raceVars, libVars>>

\* storage.saveFile(file, { userId, jobId }) for the file at position i
SavedFile(file, i) ==
    [id |-> StoredId(i), jobId |-> CurrentJob, name |-> file.name, size |-> file.size,
     mimeType |-> file.type]

\* await Promise.all(files.map((file) => deps.storage.saveFile(file, ...)))
SaveStep(thrown) ==
    /\ pc = "save"
    /\ calls' = [calls EXCEPT !.saveFile = files]
    /\ IF thrown.stage = "none"
       THEN /\ uploadedFiles' = [i \in 1..Len(files) |-> SavedFile(files[i], i)]
            /\ pc' = "parsing"
            /\ UNCHANGED caught
       ELSE /\ caught' = thrown
            /\ pc' = "catch"
            /\ UNCHANGED uploadedFiles
    /\ UNCHANGED <<request, deps, rawFiles, files, errors, jobId, documents, chunks,
                   flashcards, response, repoStore, trackerVars, raceVars, libVars>>

\* A status update inside the try block: its error is caught like a stage's.
StatusStep(from, status, payload, to) ==
    /\ pc = from
    /\ DoUpdateJobStatus(CurrentJob, status, payload)
    /\ calls' = StatusCalls(calls, CurrentJob, status)
    /\ IF UpdateOutcome(CurrentJob, status) = "ok"
       THEN /\ pc' = to
            /\ UNCHANGED caught
       ELSE /\ pc' = "catch"
            /\ caught' = [stage |-> "status"] @@ StatusError(CurrentJob, status)

\* await updateJobStatus(jobId, 'parsing', { files: uploadedFiles.map(toFileSummary) }, ...)
ParsingStep ==
    /\ StatusStep("parsing", "parsing", [files |-> UploadedSummaries(uploadedFiles)], "load")
    /\ UNCHANGED <<request, deps, rawFiles, files, errors, jobId, uploadedFiles,
                   documents, chunks, flashcards, response, repoStore, raceVars, libVars>>

\* A raw document as a loader returns it: with or without an id of its own, its
\* metadata with or without a sourceFileId of its own.
PageDoc == [metadata |-> [page |-> 1]]
ForeignDoc == [id |-> [doc |-> 1], metadata |-> [page |-> 1, sourceFileId |-> [foreign |-> TRUE]]]
LoaderDocs == {PageDoc, ForeignDoc}

\* What the loader factory and the loader do for one file: no loader, a loader whose
\* load rejects, a loader whose load resolves to a list of raw documents.
NoLoader == [kind |-> "noloader", docs |-> <<>>]
LoadThrows == [kind |-> "throws", docs |-> <<>>]
Loads(docs) == [kind |-> "docs", docs |-> docs]
LoaderOutcomes == {NoLoader, LoadThrows, Loads(<<>>), Loads(<<PageDoc>>)}
AllLoaderOutcomes ==
    {NoLoader, LoadThrows}
    \cup {Loads(docs) : docs \in UNION {[1..n -> LoaderDocs] : n \in 0..MaxDocs}}

DecorateLoaderMetadataWins(file, doc, index) ==
    [id |-> IF "id" \in DOMAIN doc THEN doc.id ELSE [file |-> file.id, index |-> index],
     metadata |-> doc.metadata @@ [sourceFileId |-> file.id, sourceFileName |-> file.name,
                                   mediaType |-> file.mimeType]]

\* documents.push({ id: doc.id ?? `${file.id}:${index}`, pageContent,
\*                  metadata: { ...doc.metadata, sourceFileId, sourceFileName, mediaType } })
Decorate(file, doc, index) ==
    [id |-> IF "id" \in DOMAIN doc THEN doc.id ELSE [file |-> file.id, index |-> index],
     metadata |-> [sourceFileId |-> file.id, sourceFileName |-> file.name,
                   mediaType |-> file.mimeType] @@ doc.metadata]

RECURSIVE LoadFromSkipsMissingLoader(_, _, _, _)
LoadFromSkipsMissingLoader(ufs, plan, i, docs) ==
    IF i > Len(ufs)
    THEN [ok |-> TRUE, documents |-> docs, factoryCalls |-> i - 1, loadCalls |-> i - 1]
    ELSE IF plan[i].kind = "noloader"
    THEN LoadFromSkipsMissingLoader(ufs, plan, i + 1, docs)
    ELSE IF plan[i].kind = "throws"
    THEN [ok |-> FALSE, factoryCalls |-> i, loadCalls |-> i,
          thrown |-> [stage |-> "loader", isError |-> TRUE,
                      message |-> [text |-> "failure", of |-> "loader"]]]
    ELSE LoadFromSkipsMissingLoader(ufs, plan, i + 1,
             docs \o [k \in 1..Len(plan[i].docs) |-> Decorate(ufs[i], plan[i].docs[k], k - 1)])

\* loadDocuments: the loop from file i on, with `docs` collected so far.
RECURSIVE LoadFrom(_, _, _, _)
LoadFrom(ufs, plan, i, docs) ==
    IF i > Len(ufs)
    THEN [ok |-> TRUE, documents |-> docs, factoryCalls |-> i - 1, loadCalls |-> i - 1]
    ELSE IF plan[i].kind = "noloader"
    THEN [ok |-> FALSE, factoryCalls |-> i, loadCalls |-> i - 1,
          thrown |-> [stage |-> "loader", isError |-> TRUE,
                      message |-> [text |-> "No document loader registered for",
                                   mimeType |-> ufs[i].mimeType]]]
    ELSE IF plan[i].kind = "throws"
    THEN [ok |-> FALSE, factoryCalls |-> i, loadCalls |-> i,
          thrown |-> [stage |-> "loader", isError |-> TRUE,
                      message |-> [text |-> "failure", of |-> "loader"]]]
    ELSE LoadFrom(ufs, plan, i + 1,
             docs \o [k \in 1..Len(plan[i].docs) |-> Decorate(ufs[i], plan[i].docs[k], k - 1)])

loadDocuments(ufs, plan) == LoadFrom(ufs, plan, 1, <<>>)

\* const documents = await loadDocuments(uploadedFiles, deps.loaderFactory)
LoadStep(plan) ==
    /\ pc = "load"
    /\ calls' = [calls EXCEPT !.loaderFactory = loadDocuments(uploadedFiles, plan).factoryCalls,
                              !.load = loadDocuments(uploadedFiles, plan).loadCalls]
    /\ IF loadDocuments(uploadedFiles, plan).ok
       THEN /\ documents' = loadDocuments(uploadedFiles, plan).documents
            /\ pc' = "generating"
            /\ UNCHANGED caught
       ELSE /\ caught' = loadDocuments(uploadedFiles, plan).thrown
            /\ pc' = "catch"
            /\ UNCHANGED documents
    /\ UNCHANGED <<request, deps, rawFiles, files, errors, jobId, uploadedFiles,
                   chunks, flashcards, response, repoStore, trackerVars, raceVars, libVars>>

\* await updateJobStatus(jobId, 'generating', { documentCount: documents.length }, ...)
GeneratingStep ==
    /\ StatusStep("generating", "generating", [documentCount |-> Len(documents)], "split")
    /\ UNCHANGED <<request, deps, rawFiles, files, errors, jobId, uploadedFiles,
                   documents, chunks, flashcards, response, repoStore, raceVars, libVars>>

\* A list of n DocumentChunks (their chunkId and chunkIndex).
ChunkList(n) == [i \in 1..n |-> [chunkId |-> [chunk |-> i - 1], chunkIndex |-> i - 1]]

\* const chunks = await deps.splitter.splitDocuments(documents): n chunks, or a throw
SplitStep(n, thrown) ==
    /\ pc = "split"
    /\ calls' = [calls EXCEPT !.splitDocuments = @ + 1]
    /\ IF thrown.stage = "none"
       THEN /\ chunks' = ChunkList(n)
            /\ pc' = "generate"
            /\ UNCHANGED caught
       ELSE /\ caught' = thrown
            /\ pc' = "catch"
            /\ UNCHANGED chunks
    /\ UNCHANGED <<request, deps, rawFiles, files, errors, jobId, uploadedFiles,
                   documents, flashcards, response, repoStore, trackerVars, raceVars, libVars>>

\* The raw text an LLM resolves to, as a sequence of characters grouped by what
\* parseFlashcardsResponse and JSON.parse tell apart: a run of prose (no bracket in
\* it, not JSON), white space, '[', ']', a JSON string, the text of a JSON object
\* without an array in it (with the comma that separates it from a neighbour), and
\* the text of an object up to its array-valued member `key` and from the end of
\* that array on.
Prose == [c |-> "prose"]
Space == [c |-> "space"]
LB == [c |-> "["]
RB == [c |-> "]"]
JsonString(v) == [c |-> "string", s |-> v]
PlainObject(fields) == [c |-> "object", fields |-> fields]
ObjectOpen(fields, key) == [c |-> "object-open", fields |-> fields, key |-> key]
ObjectClose == [c |-> "object-close"]

\* {"front":"Q1","back":"A1"}
CardQ1 == <<PlainObject([front |-> "Q1", back |-> "A1"])>>
\* {"question":"Q2","answer":"A2","sourceChunkIds":["chunk-1"]}
CardQ2 ==
    <<ObjectOpen([question |-> "Q2", answer |-> "A2"], "sourceChunkIds"),
      LB, JsonString([chunk |-> 1]), RB, ObjectClose>>

\* The pieces raw texts are put together from.
Pieces == {<<Prose>>, <<LB>>, <<RB>>, CardQ1, CardQ2}

RECURSIVE Flatten(_)
Flatten(ps) == IF ps = <<>> THEN <<>> ELSE Head(ps) \o Flatten(Tail(ps))

Min(a, b) == IF a < b THEN a ELSE b

\* String.prototype.indexOf / lastIndexOf for one character: zero-based, -1 if absent
indexOf(s, ch) ==
    IF \E i \in 1..Len(s) : s[i] = ch
    THEN (CHOOSE i \in 1..Len(s) : s[i] = ch /\ \A j \in 1..(i - 1) : s[j] # ch) - 1
    ELSE -1

lastIndexOf(s, ch) ==
    IF \E i \in 1..Len(s) : s[i] = ch
    THEN (CHOOSE i \in 1..Len(s) : s[i] = ch /\ \A j \in (i + 1)..Len(s) : s[j] # ch) - 1
    ELSE -1

\* slice(start, end) of a string or an array, for start >= 0 and end >= 0
slice(s, start, end) ==
    [i \in 1..(Min(end, Len(s)) - Min(start, Len(s))) |-> s[Min(start, Len(s)) + i]]

\* String.prototype.trim
RECURSIVE trimStart(_)
trimStart(s) == IF s # <<>> /\ Head(s) = Space THEN trimStart(Tail(s)) ELSE s
RECURSIVE trimEnd(_)
trimEnd(s) ==
    IF s # <<>> /\ s[Len(s)] = Space THEN trimEnd(SubSeq(s, 1, Len(s) - 1)) ELSE s
trim(s) == trimEnd(trimStart(s))

\* JSON.parse: the position of the first character from i on that is not white space
RECURSIVE SkipSpace(_, _)
SkipSpace(s, i) == IF i <= Len(s) /\ s[i] = Space THEN SkipSpace(s, i + 1) ELSE i

\* JSON.parse: the value that starts at position i, and the position after it
RECURSIVE ParseValue(_, _)
RECURSIVE ParseItems(_, _, _)
ParseValue(s, i) ==
    IF i > Len(s) THEN [ok |-> FALSE]
    ELSE IF s[i].c = "object"
    THEN [ok |-> TRUE, value |-> [t |-> "object", fields |-> s[i].fields], next |-> i + 1]
    ELSE IF s[i].c = "string"
    THEN [ok |-> TRUE, value |-> [t |-> "string", s |-> s[i].s], next |-> i + 1]
    ELSE IF s[i].c = "["
    THEN ParseItems(s, i + 1, <<>>)
    ELSE IF s[i].c = "object-open"
    THEN LET member == ParseValue(s, SkipSpace(s, i + 1)) IN
         IF ~member.ok THEN [ok |-> FALSE]
         ELSE LET j == SkipSpace(s, member.next) IN
              IF j <= Len(s) /\ s[j] = ObjectClose
              THEN [ok |-> TRUE,
                    value |-> [t |-> "object",
                               fields |-> (s[i].key :> member.value) @@ s[i].fields],
                    next |-> j + 1]
              ELSE [ok |-> FALSE]
    ELSE [ok |-> FALSE]

\* the items of an array whose '[' is read, from position i on
ParseItems(s, i, items) ==
    LET j == SkipSpace(s, i) IN
    IF j > Len(s) THEN [ok |-> FALSE]
    ELSE IF s[j] = RB
    THEN [ok |-> TRUE, value |-> [t |-> "array", items |-> items], next |-> j + 1]
    ELSE LET item == ParseValue(s, j) IN
         IF item.ok THEN ParseItems(s, item.next, Append(items, item.value))
         ELSE [ok |-> FALSE]

JSONparse(s) ==
    LET v == ParseValue(s, SkipSpace(s, 1)) IN
    IF v.ok /\ SkipSpace(s, v.next) > Len(s) THEN [ok |-> TRUE, value |-> v.value]
    ELSE [ok |-> FALSE]

\* entry.a ?? entry.b ?? ''
Member(entry, a, b) ==
    IF entry.t # "object" THEN ""
    ELSE IF a \in DOMAIN entry.fields THEN entry.fields[a]
    ELSE IF b \in DOMAIN entry.fields THEN entry.fields[b]
    ELSE ""

\* Array.isArray(entry.sourceChunkIds)
HasSourceChunkIds(entry) ==
    /\ entry.t = "object"
    /\ "sourceChunkIds" \in DOMAIN entry.fields
    /\ entry.fields["sourceChunkIds"].t = "array"

\* entry.sourceChunkIds.map(String), for an array of JSON strings
SourceChunkIds(entry) ==
    [k \in 1..Len(entry.fields["sourceChunkIds"].items) |->
        entry.fields["sourceChunkIds"].items[k].s]

\* const maxCards = options.maxCards ?? 20
maxCardsOf(options) == IF "maxCards" \in DOMAIN options THEN options.maxCards ELSE 20

ParseError(text) ==
    [ok |-> FALSE,
     thrown |-> [stage |-> "parse", isError |-> TRUE, message |-> [text |-> text]]]

ToFlashcardsFirstChunk(allowed, cs) ==
    [i \in 1..Len(allowed) |->
        [id |-> [card |-> i - 1],
         front |-> Member(allowed[i], "front", "question"),
         back |-> Member(allowed[i], "back", "answer"),
         sourceChunkIds |->
            IF HasSourceChunkIds(allowed[i])
            THEN SourceChunkIds(allowed[i])
            ELSE [k \in 1..Len(slice(cs, 0, 1)) |-> slice(cs, 0, 1)[k].chunkId]]]

\* allowed.map((entry, index) => ({ id, front, back, tags, sourceChunkIds }))
\* (no `tags` member in the object texts above: tags is undefined)
toFlashcards(allowed, cs) ==
    [i \in 1..Len(allowed) |->
        [id |-> [card |-> i - 1],
         front |-> Member(allowed[i], "front", "question"),
         back |-> Member(allowed[i], "back", "answer"),
         sourceChunkIds |->
            IF HasSourceChunkIds(allowed[i])
            THEN SourceChunkIds(allowed[i])
            ELSE [k \in 1..Len(slice(cs, i - 1, i)) |-> slice(cs, i - 1, i)[k].chunkId]]]

ParseKeepsOneMore(raw, cs, maxCards) ==
    LET trimmed == trim(raw)
        start == indexOf(trimmed, LB)
        end == lastIndexOf(trimmed, RB)
        parsed == JSONparse(slice(trimmed, start, end + 1))
    IN  IF start = -1 \/ end = -1
        THEN ParseError("Claude response did not include JSON array")
        ELSE IF ~parsed.ok
        THEN ParseError("Claude response JSON parse failed")
        ELSE IF parsed.value.t # "array"
        THEN ParseError("Claude response malformed: expected array")
        ELSE [ok |-> TRUE,
              flashcards |-> toFlashcards(slice(parsed.value.items, 0, maxCards + 1), cs)]

ParseFromLastOpen(raw, cs, maxCards) ==
    LET trimmed == trim(raw)
        start == lastIndexOf(trimmed, LB)
        end == lastIndexOf(trimmed, RB)
        parsed == JSONparse(slice(trimmed, start, end + 1))
    IN  IF start = -1 \/ end = -1
        THEN ParseError("Claude response did not include JSON array")
        ELSE IF ~parsed.ok
        THEN ParseError("Claude response JSON parse failed")
        ELSE IF parsed.value.t # "array"
        THEN ParseError("Claude response malformed: expected array")
        ELSE [ok |-> TRUE,
              flashcards |-> toFlashcards(slice(parsed.value.items, 0, maxCards), cs)]

ParseNeedsBothMissing(raw, cs, maxCards) ==
    LET trimmed == trim(raw)
        start == indexOf(trimmed, LB)
        end == lastIndexOf(trimmed, RB)
        parsed == JSONparse(slice(trimmed, IF start = -1 THEN 0 ELSE start, end + 1))
    IN  IF start = -1 /\ end = -1
        THEN ParseError("Claude response did not include JSON array")
        ELSE IF ~parsed.ok
        THEN ParseError("Claude response JSON parse failed")
        ELSE IF parsed.value.t # "array"
        THEN ParseError("Claude response malformed: expected array")
        ELSE [ok |-> TRUE,
              flashcards |-> toFlashcards(slice(parsed.value.items, 0, maxCards), cs)]

\* parseFlashcardsResponse(raw, chunks, maxCards)
parseFlashcardsResponse(raw, cs, maxCards) ==
    LET trimmed == trim(raw)
        start == indexOf(trimmed, LB)
        end == lastIndexOf(trimmed, RB)
        json == slice(trimmed, start, end + 1)
        parsed == JSONparse(json)
        allowed == slice(parsed.value.items, 0, maxCards)
    IN  IF start = -1 \/ end = -1
        THEN ParseError("Claude response did not include JSON array")
        ELSE IF ~parsed.ok
        THEN ParseError("Claude response JSON parse failed")
        ELSE IF parsed.value.t # "array"
        THEN ParseError("Claude response malformed: expected array")
        ELSE [ok |-> TRUE, flashcards |-> toFlashcards(allowed, cs)]

\* The i-th object text of the arrays the LLM client of handleUpload resolves to.
RECURSIVE Cards(_)
Cards(n) == IF n = 0 THEN <<>> ELSE Cards(n - 1) \o (IF n % 2 = 1 THEN CardQ1 ELSE CardQ2)

\* The raw texts the LLM client of handleUpload resolves to: no bracket, prose between
\* brackets, and an array of 0..MaxEntries objects wrapped in prose.
RawResponses ==
    {<<Prose>>, <<LB, Prose, RB>>}
    \cup {<<Prose, LB>> \o Cards(n) \o <<RB, Prose>> : n \in 0..MaxEntries}

\* What the LLM client does when it is called: it rejects, or it resolves to a text.
Rejects(thrown) == [kind |-> "throws", thrown |-> thrown]
Resolves(raw) == [kind |-> "text", raw |-> raw]

\* What the LLM client does in the runs modelled.
LLMReplies == {Rejects(t) : t \in Thrown("claude")} \cup {Resolves(raw) : raw \in RawResponses}

\* The lines of the prompt that depend on the options:
\* topic = options.topic ?? 'Study Material', tone = options.tone ?? 'concise',
\* `Create up to ${maxCards} flashcards.`
promptOf(options) ==
    [topic |-> IF "topic" \in DOMAIN options /\ options.topic # Undefined
               THEN options.topic ELSE Topic("Study Material"),
     tone |-> IF "tone" \in DOMAIN options THEN options.tone ELSE "concise",
     maxCards |-> maxCardsOf(options)]

\* generateFlashcards(chunks, options, claude), `reply` being what
\* claude.generateFlashcards does when it is called; llmCalls counts its calls.
generateFlashcards(cs, options, reply) ==
    IF Len(cs) = 0
    THEN [ok |-> TRUE, flashcards |-> <<>>, llmCalls |-> 0, prompt |-> Undefined]
    ELSE IF reply.kind = "throws"
    THEN [ok |-> FALSE, thrown |-> reply.thrown, llmCalls |-> 1,
          prompt |-> promptOf(options)]
    ELSE LET parsed == parseFlashcardsResponse(reply.raw, cs, maxCardsOf(options)) IN
         IF parsed.ok
         THEN [ok |-> TRUE, flashcards |-> parsed.flashcards, llmCalls |-> 1,
               prompt |-> promptOf(options)]
         ELSE [ok |-> FALSE, thrown |-> parsed.thrown, llmCalls |-> 1,
               prompt |-> promptOf(options)]

\* const flashcards = await generateFlashcards(chunks, flashcardOptions, deps.claude)
GenerateStep(reply) ==
    /\ pc = "generate"
    /\ LET r == generateFlashcards(chunks,
                                   flashcardOptionsOf(deps.flashcardOptions,
                                                      topicOf(request.topic)),
                                   reply) IN
       /\ calls' = [calls EXCEPT !.claude = @ + r.llmCalls, !.prompt = r.prompt]
       /\ IF r.ok
          THEN /\ flashcards' = r.flashcards
               /\ pc' = "persist"
               /\ UNCHANGED caught
          ELSE /\ caught' = r.thrown
               /\ pc' = "catch"
               /\ UNCHANGED flashcards
    /\ UNCHANGED <<request, deps, rawFiles, files, errors, jobId, uploadedFiles,
                   documents, chunks, response, repoStore, trackerVars, raceVars, libVars>>

PersistAlwaysSaves(fs, metadata, thrown) ==
    IF thrown.stage = "none"
    THEN [saveCalls |-> 1,
          saved |-> <<[jobId |-> metadata.jobId, count |-> Len(fs),
                       options |-> metadata.options]>>,
          thrown |-> NoCaught]
    ELSE [saveCalls |-> 1, saved |-> <<>>, thrown |-> thrown]

\* persistFlashcards(userId, flashcards, metadata, repository):
\* if (!flashcards.length) return; await repository.saveFlashcards(...)
\* `thrown` is what repository.saveFlashcards does when it is called.
persistFlashcards(fs, metadata, thrown) ==
    IF Len(fs) = 0
    THEN [saveCalls |-> 0, saved |-> <<>>, thrown |-> NoCaught]
    ELSE IF thrown.stage = "none"
    THEN [saveCalls |-> 1,
          saved |-> <<[jobId |-> metadata.jobId, count |-> Len(fs),
                       options |-> metadata.options]>>,
          thrown |-> NoCaught]
    ELSE [saveCalls |-> 1, saved |-> <<>>, thrown |-> thrown]

\* await persistFlashcards(userId, flashcards, {...}, deps.repository)
PersistStep(thrown) ==
    /\ pc = "persist"
    /\ Len(flashcards) = 0 => thrown.stage = "none"
    /\ LET r == persistFlashcards(flashcards,
                                  [jobId |-> CurrentJob,
                                   options |-> flashcardOptionsOf(deps.flashcardOptions,
                                                                  topicOf(request.topic))],
                                  thrown) IN
       /\ calls' = [calls EXCEPT !.saveFlashcards = @ + r.saveCalls]
       /\ repoStore' = repoStore \o r.saved
       /\ IF r.thrown.stage = "none"
          THEN /\ pc' = "complete"
               /\ UNCHANGED caught
          ELSE /\ caught' = r.thrown
               /\ pc' = "catch"
    /\ UNCHANGED <<request, deps, rawFiles, files, errors, jobId, uploadedFiles,
                   documents, chunks, flashcards, response, trackerVars, raceVars, libVars>>

\* await updateJobStatus(jobId, 'complete', { flashcardCount: flashcards.length }, ...)
\* and the 200 response
CompleteStep ==
    /\ StatusStep("complete", "complete", [flashcardCount |-> Len(flashcards)], "done")
    /\ response' =
          IF UpdateOutcome(CurrentJob, "complete") = "ok"
          THEN jsonResponse([jobId |-> CurrentJob, flashcardCount |-> Len(flashcards),
                             message |-> "Flashcards generated successfully"], 200)
          ELSE response
    /\ UNCHANGED <<request, deps, rawFiles, files, errors, jobId, uploadedFiles,
                   documents, chunks, flashcards, repoStore, raceVars, libVars>>

CatchMessageAlwaysUnknown(thrown) == [text |-> "Unknown error"]

\* const message = error instanceof Error ? error.message : 'Unknown error'
CatchMessage(thrown) ==
    IF thrown.isError THEN thrown.message ELSE [text |-> "Unknown error"]

\* catch (error) { ... await updateJobStatus(jobId, 'failed', { error: message }, ...);
\* return jsonResponse({ error, details: message, jobId }, 500) }
CatchStep ==
    /\ pc = "catch"
    /\ DoUpdateJobStatus(CurrentJob, "failed", [error |-> CatchMessage(caught)])
    /\ calls' = StatusCalls(calls, CurrentJob, "failed")
    /\ IF UpdateOutcome(CurrentJob, "failed") = "ok"
       THEN /\ response' = jsonResponse([error |-> "Failed to process documents",
                                         details |-> CatchMessage(caught),
                                         jobId |-> CurrentJob], 500)
            /\ pc' = "done"
       ELSE /\ pc' = "rejected"
            /\ UNCHANGED response
    /\ UNCHANGED <<request, deps, rawFiles, files, errors, jobId, uploadedFiles,
                   documents, chunks, flashcards, caught, repoStore, raceVars, libVars>>

-----------------------------------------------------------------------------
(* LLM configuration (llm_config.ts) and quiz generation (generateQuizFromChunks) *)

\* const DEFAULT_CONFIG_PATH = path.join(process.cwd(), ..., 'llm_options.yml')
DEFAULT_CONFIG_PATH == "llm_options.yml"
ConfigPaths == {DEFAULT_CONFIG_PATH}

\* Entries of `providers` in llm_options.yml, by the members the code reads.
ProviderConfigs ==
    [anthropic_claude |-> [provider |-> "anthropic", env_var |-> "ANTHROPIC_API_KEY"],
     google_gemini |-> [provider |-> "google", env_var |-> "GEMINI_API_KEY"],
     local_llama |-> [provider |-> "llama", env_var |-> "LLAMA_API_KEY"]]
ProviderKeys == DOMAIN ProviderConfigs
EnvVars == {ProviderConfigs[k].env_var : k \in ProviderKeys}

\* What a configuration file holds: nothing readable (readFile rejects), a YAML
\* document that parses to null, one without `providers`, or an LLMConfig with or
\* without default_provider.
FileMissing == [kind |-> "missing"]
YamlNull == [kind |-> "null"]
YamlNoProviders == [kind |-> "object"]
ConfigContents ==
    {FileMissing, YamlNull, YamlNoProviders}
    \cup {[kind |-> "object", providers |-> [k \in ks |-> ProviderConfigs[k]]] :
             ks \in SUBSET ProviderKeys}
    \cup {[kind |-> "object", providers |-> [k \in ks |-> ProviderConfigs[k]],
           default_provider |-> d] : ks \in SUBSET ProviderKeys, d \in ProviderKeys}

\* let cachedConfig = null; let cachedPath = null
Null == [kind |-> "null"]
LLMInit ==
    /\ configFiles = [path \in ConfigPaths |-> FileMissing]
    /\ env = {}
    /\ cachedConfig = Null
    /\ cachedPath = Null
    /\ configCalls = <<>>

ConfigError(text) ==
    [stage |-> "config", isError |-> TRUE, message |-> [text |-> text]]

LoadIgnoresCache(configPath, cache, filesNow) ==
    IF filesNow[configPath] = FileMissing
    THEN [ok |-> FALSE, read |-> TRUE, cache |-> cache, thrown |-> ConfigError("ENOENT")]
    ELSE IF filesNow[configPath] = YamlNull
            \/ "providers" \notin DOMAIN filesNow[configPath]
    THEN [ok |-> FALSE, read |-> TRUE, cache |-> cache,
          thrown |-> ConfigError("Invalid LLM configuration at")]
    ELSE [ok |-> TRUE, read |-> TRUE, config |-> filesNow[configPath],
          cache |-> [config |-> filesNow[configPath], path |-> [path |-> configPath]]]

\* loadLLMConfig({ configPath }) with the cache and the files as they are: the
\* configuration or the throw, whether readFile was called, and the cache afterwards.
loadLLMConfig(configPath, cache, filesNow) ==
    IF cache.config # Null /\ cache.path = [path |-> configPath]
    THEN [ok |-> TRUE, read |-> FALSE, config |-> cache.config, cache |-> cache]
    ELSE IF filesNow[configPath] = FileMissing
    THEN [ok |-> FALSE, read |-> TRUE, cache |-> cache, thrown |-> ConfigError("ENOENT")]
    ELSE IF filesNow[configPath] = YamlNull
            \/ "providers" \notin DOMAIN filesNow[configPath]
    THEN [ok |-> FALSE, read |-> TRUE, cache |-> cache,
          thrown |-> ConfigError("Invalid LLM configuration at")]
    ELSE [ok |-> TRUE, read |-> TRUE, config |-> filesNow[configPath],
          cache |-> [config |-> filesNow[configPath], path |-> [path |-> configPath]]]

\* resolveProvider(providerKey): options is {} or { providerKey }
resolveProvider(options, cache, filesNow) ==
    LET loaded == loadLLMConfig(DEFAULT_CONFIG_PATH, cache, filesNow)
        fallback == IF "default_provider" \in DOMAIN loaded.config
                    THEN loaded.config.default_provider
                    ELSE "anthropic_claude"
        selectedKey == IF "providerKey" \in DOMAIN options THEN options.providerKey
                       ELSE fallback
    IN  IF ~loaded.ok THEN loaded
        ELSE IF selectedKey \notin DOMAIN loaded.config.providers
        THEN [ok |-> FALSE, cache |-> loaded.cache,
              thrown |-> [stage |-> "config", isError |-> TRUE,
                          message |-> [text |-> "Provider not found in llm_options.yml",
                                       provider |-> selectedKey]]]
        ELSE [ok |-> TRUE, cache |-> loaded.cache, key |-> selectedKey,
              config |-> loaded.config.providers[selectedKey]]

\* The provider types invokeProvider has a client for.
SupportedProviders == {"anthropic", "google", "openai"}

QuizRetriesOnFailure(cs, options, reply, cache, filesNow, envNow) ==
    LET resolved == resolveProvider(options, cache, filesNow)
        parsed == parseFlashcardsResponse(reply.raw, cs, maxCardsOf(options))
    IN  IF Len(cs) = 0
        THEN [ok |-> TRUE, cache |-> cache, llmCalls |-> 0,
              providerKey |-> IF "providerKey" \in DOMAIN options THEN options.providerKey
                              ELSE "anthropic_claude",
              rawResponse |-> <<LB, RB>>, flashcards |-> <<>>]
        ELSE IF ~resolved.ok
        THEN [ok |-> FALSE, cache |-> resolved.cache, llmCalls |-> 0,
              thrown |-> resolved.thrown]
        ELSE IF resolved.config.env_var \notin envNow
        THEN [ok |-> FALSE, cache |-> resolved.cache, llmCalls |-> 0,
              thrown |-> [stage |-> "config", isError |-> TRUE,
                          message |-> [text |-> "Missing API key for provider",
                                       provider |-> resolved.key]]]
        ELSE IF resolved.config.provider \notin SupportedProviders
        THEN [ok |-> FALSE, cache |-> resolved.cache, llmCalls |-> 0,
              thrown |-> [stage |-> "config", isError |-> TRUE,
                          message |-> [text |-> "Unsupported provider",
                                       provider |-> resolved.key]]]
        ELSE IF reply.kind = "throws"
        THEN [ok |-> FALSE, cache |-> resolved.cache, llmCalls |-> 2,
              thrown |-> reply.thrown]
        ELSE IF ~parsed.ok
        THEN [ok |-> FALSE, cache |-> resolved.cache, llmCalls |-> 2,
              thrown |-> parsed.thrown]
        ELSE [ok |-> TRUE, cache |-> resolved.cache, llmCalls |-> 1,
              providerKey |-> resolved.key, rawResponse |-> reply.raw,
              flashcards |-> parsed.flashcards]

\* generateQuizFromChunks(chunks, options), `reply` being what the provider's SDK call
\* does when invokeProvider makes it; llmCalls counts the SDK calls made.
generateQuizFromChunks(cs, options, reply, cache, filesNow, envNow) ==
    LET resolved == resolveProvider(options, cache, filesNow)
        parsed == parseFlashcardsResponse(reply.raw, cs, maxCardsOf(options))
    IN  IF Len(cs) = 0
        THEN [ok |-> TRUE, cache |-> cache, llmCalls |-> 0,
              providerKey |-> IF "providerKey" \in DOMAIN options THEN options.providerKey
                              ELSE "anthropic_claude",
              rawResponse |-> <<LB, RB>>, flashcards |-> <<>>]
        ELSE IF ~resolved.ok
        THEN [ok |-> FALSE, cache |-> resolved.cache, llmCalls |-> 0,
              thrown |-> resolved.thrown]
        ELSE IF resolved.config.env_var \notin envNow
        THEN [ok |-> FALSE, cache |-> resolved.cache, llmCalls |-> 0,
              thrown |-> [stage |-> "config", isError |-> TRUE,
                          message |-> [text |-> "Missing API key for provider",
                                       provider |-> resolved.key]]]
        ELSE IF resolved.config.provider \notin SupportedProviders
        THEN [ok |-> FALSE, cache |-> resolved.cache, llmCalls |-> 0,
              thrown |-> [stage |-> "config", isError |-> TRUE,
                          message |-> [text |-> "Unsupported provider",
                                       provider |-> resolved.key]]]
        ELSE IF reply.kind = "throws"
        THEN [ok |-> FALSE, cache |-> resolved.cache, llmCalls |-> 1,
              thrown |-> reply.thrown]
        ELSE IF ~parsed.ok
        THEN [ok |-> FALSE, cache |-> resolved.cache, llmCalls |-> 1,
              thrown |-> parsed.thrown]
        ELSE [ok |-> TRUE, cache |-> resolved.cache, llmCalls |-> 1,
              providerKey |-> resolved.key, rawResponse |-> reply.raw,
              flashcards |-> parsed.flashcards]

-----------------------------------------------------------------------------
(* POST /api/decks *)

\* Course codes as the pieces of their text, " " being white space: "CS 101", "CS_101"
CourseCodes == {<<"CS", " ", "101">>, <<"CS", "_", "101">>}

\* courseCode.replace(/\s+/g, '_'): every run of white space becomes one underscore
RECURSIVE replaceSpaces(_)
replaceSpaces(code) ==
    IF Len(code) = 0 THEN <<>>
    ELSE IF code[1] # " " THEN <<code[1]>> \o replaceSpaces(Tail(code))
    ELSE IF Len(code) > 1 /\ code[2] = " " THEN replaceSpaces(Tail(code))
    ELSE <<"_">> \o replaceSpaces(Tail(code))

\* courseCode.split(' ')[0]: the pieces before the first space
RECURSIVE firstWord(_)
firstWord(code) ==
    IF Len(code) = 0 \/ code[1] = " " THEN <<>> ELSE <<code[1]>> \o firstWord(Tail(code))

DeckIds == {replaceSpaces(c) : c \in CourseCodes}

\* The flashcard lists of generation runs, as parseFlashcardsResponse returns them for
\* responses with no, one and two cards.
PostedLists ==
    {parseFlashcardsResponse(<<LB>> \o Cards(n) \o <<RB>>, ChunkList(n), 20).flashcards :
        n \in 0..2}
UserIds == {"u1", "u2"}

\* Request bodies that pass the check of the required members, without and with userId
ValidBodies ==
    {[courseCode |-> c, courseName |-> "Intro", flashcards |-> f] :
        c \in CourseCodes, f \in PostedLists}
    \cup {[courseCode |-> c, courseName |-> "Intro", flashcards |-> f, userId |-> u] :
             c \in CourseCodes, f \in PostedLists, u \in UserIds}
\* Bodies with a required member missing or empty
InvalidBodies ==
    {[courseName |-> "Intro", flashcards |-> <<>>],
     [courseCode |-> <<>>, courseName |-> "Intro", flashcards |-> <<>>],
     [courseCode |-> <<"CS", " ", "101">>, flashcards |-> <<>>],
     [courseCode |-> <<"CS", " ", "101">>, courseName |-> "Intro"]}

\* !courseCode || !courseName || !flashcards
MissingRequired(body) ==
    \/ "courseCode" \notin DOMAIN body
    \/ body.courseCode = <<>>
    \/ "courseName" \notin DOMAIN body
    \/ "flashcards" \notin DOMAIN body

\* A document of the 'decks' collection that does not exist
Absent == [exists |-> FALSE]
DeckProcs == {"request-a", "request-b"}
DeckIdle == [pc |-> "idle"]
DeckInit ==
    /\ deckStore = [d \in DeckIds |-> Absent]
    /\ deckReq = [p \in DeckProcs |-> DeckIdle]
    /\ deckLog = <<>>
    /\ deckOverlap = FALSE
    /\ deckPosts = 0

\* const contributorId = userId || 'anonymous'
contributorIdOf(body) == IF "userId" \in DOMAIN body THEN body.userId ELSE "anonymous"

\* arrayUnion(contributorId) applied to the stored array
arrayUnion(array, element) ==
    IF \E i \in 1..Len(array) : array[i] = element THEN array ELSE Append(array, element)

MergeNewFirst(existingFlashcards, posted) == posted \o existingFlashcards

\* const mergedFlashcards = [...existingFlashcards, ...flashcards]
mergedFlashcards(existingFlashcards, posted) == existingFlashcards \o posted

DeckError(text) == jsonResponse([status |-> "error", error |-> text], 500)

\* POST up to `await getDoc(deckRef)`: the body check, then the read of the deck
DeckPostStart(p, body, getOk) ==
    /\ deckReq[p].pc # "read"
    /\ deckPosts < MaxPosts
    /\ deckPosts' = deckPosts + 1
    /\ IF MissingRequired(body)
       THEN /\ deckReq' = [deckReq EXCEPT ![p] =
                  [pc |-> "done",
                   response |-> jsonResponse(
                       [status |-> "error",
                        error |-> "courseCode, courseName, and flashcards are required"],
                       400)]]
            /\ UNCHANGED deckOverlap
       ELSE /\ deckOverlap' = (deckOverlap \/ \E q \in DeckProcs : deckReq[q].pc = "read")
            /\ IF getOk
               THEN deckReq' = [deckReq EXCEPT ![p] =
                       [pc |-> "read", body |-> body,
                        deckId |-> replaceSpaces(body.courseCode),
                        deckDoc |-> deckStore[replaceSpaces(body.courseCode)]]]
               ELSE deckReq' = [deckReq EXCEPT ![p] =
                       [pc |-> "done", response |-> DeckError("getDoc failed")]]
    /\ UNCHANGED <<deckStore, deckLog>>
    /\ UNCHANGED <<trackerVars, uploadVars, raceVars, libInput, libCall, llmVars, configCalls, modVars>>

\* POST from the read on: updateDoc of an existing deck or setDoc of a new one, and
\* the response; writeOk is whether Firestore accepts the write
DeckPostWrite(p, writeOk) ==
    /\ deckReq[p].pc = "read"
    /\ LET body == deckReq[p].body
           deckId == deckReq[p].deckId
           deckDoc == deckReq[p].deckDoc
           contributorId == contributorIdOf(body)
           merged == mergedFlashcards(deckDoc.flashcards, body.flashcards)
           newDeck == [exists |-> TRUE,
                       courseCode |-> body.courseCode,
                       courseName |-> body.courseName,
                       programCode |-> firstWord(body.courseCode),
                       programName |-> "",
                       flashcards |-> body.flashcards,
                       totalCards |-> Len(body.flashcards),
                       userId |-> contributorId,
                       contributors |-> <<contributorId>>]
       IN  IF ~writeOk \/ (deckDoc.exists /\ ~deckStore[deckId].exists)
           THEN /\ deckReq' = [deckReq EXCEPT ![p] =
                      [pc |-> "done", response |-> DeckError("write failed")]]
                /\ UNCHANGED <<deckStore, deckLog>>
           ELSE /\ deckLog' = Append(deckLog,
                                     [courseCode |-> body.courseCode,
                                      flashcards |-> body.flashcards,
                                      contributorId |-> contributorId])
                /\ IF deckDoc.exists
                   THEN /\ deckStore' = [deckStore EXCEPT ![deckId] =
                              [@ EXCEPT !.flashcards = merged,
                                        !.totalCards = Len(merged),
                                        !.contributors = arrayUnion(@, contributorId)]]
                        /\ deckReq' = [deckReq EXCEPT ![p] =
                              [pc |-> "done",
                               response |-> jsonResponse(
                                   [status |-> "ok",
                                    message |-> "Deck updated with new flashcards",
                                    deckId |-> deckId,
                                    totalCards |-> Len(merged),
                                    newCards |-> Len(body.flashcards)], 200)]]
                   ELSE /\ deckStore' = [deckStore EXCEPT ![deckId] = newDeck]
                        /\ deckReq' = [deckReq EXCEPT ![p] =
                              [pc |-> "done",
                               response |-> jsonResponse(
                                   [status |-> "ok",
                                    message |-> "Deck created successfully",
                                    deckId |-> deckId,
                                    totalCards |-> Len(body.flashcards)], 200)]]
    /\ UNCHANGED <<deckOverlap, deckPosts>>
    /\ UNCHANGED <<trackerVars, uploadVars, raceVars, libInput, libCall, llmVars, configCalls, modVars>>

-----------------------------------------------------------------------------
(* Document upload and moderation: upload page, document page, admin page *)

\* useAuth() of a visitor who is not signed in
NoUser == "signed-out"
DocPages == {"tab-1", "tab-2"}
AdminPages == {"admin-1"}
\* useState<UploadedDocument | null>(null)
NoDocument == [loaded |-> FALSE]
ModerationInit ==
    /\ documentsCol = <<>>
    /\ reviewsCol = <<>>
    /\ docPage = [p \in DocPages |-> [user |-> NoUser, document |-> NoDocument, pc |-> "idle"]]
    /\ adminPage = [a \in AdminPages |-> [reviews |-> {}, pc |-> "idle"]]

\* The visibility fields of the record handleSubmit adds.
documentData(user) == [status |-> "private", isPublic |-> FALSE, uploadedBy |-> user]

\* updateDoc(ref, fields): the named fields are replaced, the others kept.
updateDoc(stored, fields) == fields @@ stored

\* handleSubmit of the upload page: the guards (a signed-in user, the required fields
\* complete), the upload to storage and the addDoc of the document record (stored: both
\* succeeded); in every other case it shows an error and adds nothing.
HandleSubmit(user, complete, stored) ==
    /\ Len(documentsCol) < MaxUploads
    /\ IF user = NoUser \/ ~complete \/ ~stored
       THEN UNCHANGED documentsCol
       ELSE documentsCol' = Append(documentsCol, documentData(user))
    /\ UNCHANGED <<reviewsCol, docPage, adminPage>>
    /\ UNCHANGED <<trackerVars, uploadVars, raceVars, libInput, libCall, llmVars, deckVars,
                   configCalls>>

\* fetchDocument, the effect that runs when a DocumentViewPage is opened: the page
\* keeps the record it read as its document state.
FetchDocument(p, user, documentId) ==
    /\ docPage[p].pc = "idle"
    /\ docPage' = [docPage EXCEPT ![p] =
          [user |-> user,
           document |-> IF documentId <= Len(documentsCol)
                        THEN [loaded |-> TRUE, id |-> documentId] @@ documentsCol[documentId]
                        ELSE NoDocument,
           pc |-> "idle"]]
    /\ UNCHANGED <<documentsCol, reviewsCol, adminPage>>
    /\ UNCHANGED <<trackerVars, uploadVars, raceVars, libInput, libCall, llmVars, deckVars,
                   configCalls>>

\* The page shows the request button when
\* isOwner && document.status === 'private', and disables it while submitting.
RequestButtonShown(page) ==
    /\ page.document.loaded
    /\ page.user # NoUser
    /\ page.user = page.document.uploadedBy
    /\ page.document.status = "private"
    /\ page.pc = "idle"

\* handleRequestPublic up to its first await: updateDoc of the document. A write that
\* fails is caught: the handler shows an alert and ends.
HandleRequestPublicUpdate(p, ok) ==
    /\ RequestButtonShown(docPage[p])
    /\ Len(reviewsCol) < MaxReviews
    /\ IF ok
       THEN /\ documentsCol' = [documentsCol EXCEPT ![docPage[p].document.id] =
                                   updateDoc(@, [status |-> "pending_review"])]
            /\ docPage' = [docPage EXCEPT ![p].pc = "updated"]
       ELSE /\ UNCHANGED <<documentsCol, docPage>>
    /\ UNCHANGED <<reviewsCol, adminPage>>
    /\ UNCHANGED <<trackerVars, uploadVars, raceVars, libInput, libCall, llmVars, deckVars,
                   configCalls>>

\* handleRequestPublic from its second await: addDoc of the review request, then the
\* update of the page's document state.
HandleRequestPublicAddReview(p, ok) ==
    /\ docPage[p].pc = "updated"
    /\ IF ok
       THEN /\ reviewsCol' = Append(reviewsCol,
                                [documentId |-> docPage[p].document.id,
                                 uploadedBy |-> docPage[p].document.uploadedBy,
                                 status |-> "pending"])
            /\ docPage' = [docPage EXCEPT ![p] =
                              [@ EXCEPT !.pc = "idle",
                                        !.document = [status |-> "pending_review"] @@ @]]
       ELSE /\ docPage' = [docPage EXCEPT ![p].pc = "idle"]
            /\ UNCHANGED reviewsCol
    /\ UNCHANGED <<documentsCol, adminPage>>
    /\ UNCHANGED <<trackerVars, uploadVars, raceVars, libInput, libCall, llmVars, deckVars,
                   configCalls>>

\* fetchPendingReviews, the effect that runs when an AdminPage is opened by an admin:
\* the page keeps the pending review records it read as its reviews state.
FetchPendingReviews(a) ==
    /\ adminPage[a].pc = "idle"
    /\ adminPage' = [adminPage EXCEPT ![a].reviews =
                        {r \in 1..Len(reviewsCol) : reviewsCol[r].status = "pending"}]
    /\ UNCHANGED <<documentsCol, reviewsCol, docPage>>
    /\ UNCHANGED <<trackerVars, uploadVars, raceVars, libInput, libCall, llmVars, deckVars,
                   configCalls>>

\* handleApprove up to its first await: updateDoc of the document.
HandleApproveDocument(a, review, ok) ==
    /\ adminPage[a].pc = "idle"
    /\ review \in adminPage[a].reviews
    /\ IF ok
       THEN /\ documentsCol' = [documentsCol EXCEPT ![reviewsCol[review].documentId] =
                                   updateDoc(@, [status |-> "approved", isPublic |-> TRUE])]
            /\ adminPage' = [adminPage EXCEPT ![a] =
                                [reviews |-> @.reviews, pc |-> "approving", review |-> review]]
       ELSE /\ UNCHANGED <<documentsCol, adminPage>>
    /\ UNCHANGED <<reviewsCol, docPage>>
    /\ UNCHANGED <<trackerVars, uploadVars, raceVars, libInput, libCall, llmVars, deckVars,
                   configCalls>>

\* handleApprove from its second await: updateDoc of the review record, then the
\* review is removed from the page's reviews state.
HandleApproveReview(a, ok) ==
    /\ adminPage[a].pc = "approving"
    /\ IF ok
       THEN /\ reviewsCol' = [reviewsCol EXCEPT ![adminPage[a].review] =
                                 updateDoc(@, [status |-> "approved",
                                               reviewDecision |-> "approved"])]
            /\ adminPage' = [adminPage EXCEPT ![a] =
                                [reviews |-> @.reviews \ {@.review}, pc |-> "idle"]]
       ELSE /\ adminPage' = [adminPage EXCEPT ![a] = [reviews |-> @.reviews, pc |-> "idle"]]
            /\ UNCHANGED reviewsCol
    /\ UNCHANGED <<documentsCol, docPage>>
    /\ UNCHANGED <<trackerVars, uploadVars, raceVars, libInput, libCall, llmVars, deckVars,
                   configCalls>>

\* What the admin types into prompt('Please provide a reason for rejection:')
Reasons == {"", "off topic"}

\* handleReject up to its first await: the prompt, then updateDoc of the document.
HandleRejectDocument(a, review, reason, ok) ==
    /\ adminPage[a].pc = "idle"
    /\ review \in adminPage[a].reviews
    /\ IF reason = ""
       THEN UNCHANGED <<documentsCol, adminPage>>
       ELSE IF ok
       THEN /\ documentsCol' = [documentsCol EXCEPT ![reviewsCol[review].documentId] =
                                   updateDoc(@, [status |-> "rejected", isPublic |-> FALSE,
                                                 rejectionReason |-> reason])]
            /\ adminPage' = [adminPage EXCEPT ![a] =
                                [reviews |-> @.reviews, pc |-> "rejecting", review |-> review,
                                 reason |-> reason]]
       ELSE /\ UNCHANGED <<documentsCol, adminPage>>
    /\ UNCHANGED <<reviewsCol, docPage>>
    /\ UNCHANGED <<trackerVars, uploadVars, raceVars, libInput, libCall, llmVars, deckVars,
                   configCalls>>

\* handleReject from its second await: updateDoc of the review record, then the
\* review is removed from the page's reviews state.
HandleRejectReview(a, ok) ==
    /\ adminPage[a].pc = "rejecting"
    /\ IF ok
       THEN /\ reviewsCol' = [reviewsCol EXCEPT ![adminPage[a].review] =
                                 updateDoc(@, [status |-> "rejected",
                                               reviewDecision |-> "rejected",
                                               rejectionReason |-> adminPage[a].reason])]
            /\ adminPage' = [adminPage EXCEPT ![a] =
                                [reviews |-> @.reviews \ {@.review}, pc |-> "idle"]]
       ELSE /\ adminPage' = [adminPage EXCEPT ![a] = [reviews |-> @.reviews, pc |-> "idle"]]
            /\ UNCHANGED reviewsCol
    /\ UNCHANGED <<documentsCol, docPage>>
    /\ UNCHANGED <<trackerVars, uploadVars, raceVars, libInput, libCall, llmVars, deckVars,
                   configCalls>>


-----------------------------------------------------------------------------
(* Library functions called directly *)

\* No library function is called directly.
NoInput == [fn |-> "none"]
NoCall == [fn |-> "none"]
LibInit == libInput = NoInput /\ libCall = NoCall /\ LLMInit /\ DeckInit /\ ModerationInit

\* Every text of at most MaxRawLen pieces, and every text of at most MaxSpacedLen
\* pieces or white space, with white space before and after it.
RawTexts ==
    {Flatten(ps) : ps \in UNION {[1..n -> Pieces] : n \in 0..MaxRawLen}}
    \cup {<<Space>> \o Flatten(ps) \o <<Space>> :
            ps \in UNION {[1..n -> Pieces \cup {<<Space>>}] : n \in 0..MaxSpacedLen}}

\* The text given to parseFlashcardsResponse, or resolved to by the LLM client given
\* to generateFlashcards.
ParseInit ==
    /\ libInput \in {[raw |-> raw] : raw \in RawTexts}
    /\ libCall = NoCall
    /\ LLMInit
    /\ DeckInit
    /\ ModerationInit

\* parseFlashcardsResponse(raw, chunks, maxCards) with n chunks
ParseCall(n, maxCards) ==
    /\ libCall = NoCall
    /\ libCall' = [fn |-> "parseFlashcardsResponse", chunks |-> ChunkList(n),
                   maxCards |-> maxCards,
                   result |-> parseFlashcardsResponse(libInput.raw, ChunkList(n), maxCards)]
    /\ UNCHANGED <<trackerVars, uploadVars, raceVars, libInput, llmVars, deckVars, modVars, configCalls>>

\* generateFlashcards(chunks, options, claude) with n chunks
GenerateFlashcardsCall(n, options, reply) ==
    /\ libCall = NoCall
    /\ libCall' = [fn |-> "generateFlashcards", chunks |-> ChunkList(n),
                   options |-> options, reply |-> reply,
                   result |-> generateFlashcards(ChunkList(n), options, reply)]
    /\ UNCHANGED <<trackerVars, uploadVars, raceVars, libInput, llmVars, deckVars, modVars, configCalls>>

\* The configuration file and the environment generateQuizFromChunks runs with.
QuizInit ==
    /\ libInput = NoInput
    /\ libCall = NoCall
    /\ configFiles \in [ConfigPaths -> ConfigContents]
    /\ env \in SUBSET EnvVars
    /\ cachedConfig = Null
    /\ cachedPath = Null
    /\ configCalls = <<>>
    /\ DeckInit
    /\ ModerationInit

\* options of generateQuizFromChunks: {}, { maxCards: 1 } or { providerKey }
QuizOptionsSet ==
    {[tone |-> "concise"], [tone |-> "concise", maxCards |-> 1]}
    \cup {[tone |-> "concise", providerKey |-> k] : k \in ProviderKeys}

\* generateQuizFromChunks(chunks, options) with n chunks
GenerateQuizCall(n, options, reply) ==
    /\ libCall = NoCall
    /\ LET r == generateQuizFromChunks(ChunkList(n), options, reply,
                                       [config |-> cachedConfig, path |-> cachedPath],
                                       configFiles, env)
       IN  /\ libCall' = [fn |-> "generateQuizFromChunks", chunks |-> ChunkList(n),
                          options |-> options, reply |-> reply,
                          result |-> [f \in DOMAIN r \ {"cache"} |-> r[f]]]
           /\ cachedConfig' = r.cache.config
           /\ cachedPath' = r.cache.path
    /\ UNCHANGED <<trackerVars, uploadVars, raceVars, libInput, configFiles, env, deckVars, modVars, configCalls>>

\* The files given to loadDocuments and what the loader factory does for each.
UploadedFileLists ==
    UNION {{[i \in 1..n |-> [id |-> StoredId(i), jobId |-> UploadJob, name |-> "notes",
                             size |-> DEFAULT_MAX_FILE_SIZE_BYTES, mimeType |-> t[i]]] :
               t \in [1..n -> {"text/plain", "application/pdf"}]} : n \in 0..MaxFiles}
LoadInit ==
    /\ libInput \in {[files |-> fs, plan |-> plan] :
                        fs \in UploadedFileLists, plan \in [1..MaxFiles -> AllLoaderOutcomes]}
    /\ libCall = NoCall
    /\ LLMInit
    /\ DeckInit
    /\ ModerationInit

\* loadDocuments(files, loaderFactory)
LoadDocumentsCall ==
    /\ libCall = NoCall
    /\ libCall' = [fn |-> "loadDocuments",
                   result |-> loadDocuments(libInput.files, libInput.plan)]
    /\ UNCHANGED <<trackerVars, uploadVars, raceVars, libInput, llmVars, deckVars, modVars, configCalls>>

-----------------------------------------------------------------------------
(* loadLLMConfig and resetLLMConfigCache called directly *)

\* The paths loadLLMConfig is called with: the default and one given as configPath
OtherConfigPath == "test_llm_options.yml"
LoadPaths == {DEFAULT_CONFIG_PATH, OtherConfigPath}

\* What the two files may hold: nothing readable, or one of two configurations
WrittenContents ==
    {FileMissing,
     [kind |-> "object", providers |-> [k \in {"anthropic_claude"} |-> ProviderConfigs[k]]],
     [kind |-> "object", providers |-> [k \in {"google_gemini"} |-> ProviderConfigs[k]]]}

ConfigInit ==
    /\ libInput = NoInput
    /\ libCall = NoCall
    /\ configFiles \in [LoadPaths -> WrittenContents]
    /\ env = {}
    /\ cachedConfig = Null
    /\ cachedPath = Null
    /\ configCalls = <<>>
    /\ DeckInit
    /\ ModerationInit

\* await loadLLMConfig({ configPath })
LoadConfigCall(configPath) ==
    /\ Len(configCalls) < MaxConfigCalls
    /\ LET r == loadLLMConfig(configPath, [config |-> cachedConfig, path |-> cachedPath],
                              configFiles)
       IN  /\ configCalls' = Append(configCalls,
                                    [fn |-> "loadLLMConfig", path |-> configPath,
                                     ok |-> r.ok, read |-> r.read,
                                     config |-> IF r.ok THEN r.config ELSE Null])
           /\ cachedConfig' = r.cache.config
           /\ cachedPath' = r.cache.path
    /\ UNCHANGED <<trackerVars, uploadVars, raceVars, libInput, libCall, configFiles, env,
                   deckVars, modVars>>

\* resetLLMConfigCache()
ResetConfigCall ==
    /\ Len(configCalls) < MaxConfigCalls
    /\ configCalls' = Append(configCalls, [fn |-> "resetLLMConfigCache"])
    /\ cachedConfig' = Null
    /\ cachedPath' = Null
    /\ UNCHANGED <<trackerVars, uploadVars, raceVars, libInput, libCall, configFiles, env,
                   deckVars, modVars>>

\* Somebody edits or removes a configuration file between two calls.
WriteConfigFile(configPath, contents) ==
    /\ Len(configCalls) < MaxConfigCalls
    /\ configFiles[configPath] # contents
    /\ configFiles' = [configFiles EXCEPT ![configPath] = contents]
    /\ UNCHANGED <<trackerVars, uploadVars, raceVars, libInput, libCall, env, cachedConfig,
                   cachedPath, deckVars, modVars, configCalls>>

-----------------------------------------------------------------------------
(* The document-parser upload route (POST) *)

\* request.headers.get('content-type'): no header, a JSON body, a multipart body
ContentTypes == {Null, [kind |-> "header", value |-> "application/json"],
                 [kind |-> "header", value |-> "multipart/form-data; boundary=x"]}
\* contentType?.includes('multipart/form-data')
IsMultipart(contentType) ==
    contentType # Null /\ contentType.value = "multipart/form-data; boundary=x"

\* A text of len pieces of DEFAULT_CHUNK_SIZE characters; len = 0 is the empty string.
Text(len) == [kind |-> "text", len |-> len]

\* Values under 'files' in the route's form data: a string, or a File with its name,
\* its type, the text it holds, and whether pdf-parse / mammoth can read it.
RouteFileNames == {"a.txt", "b.txt"}
RouteFiles ==
    {[kind |-> "file", name |-> n, type |-> "text/plain", readable |-> TRUE,
      text |-> Text(len)] : n \in RouteFileNames, len \in 0..MaxChunks}
    \cup {[kind |-> "file", name |-> n, type |-> "application/pdf", readable |-> TRUE,
           text |-> Text(len)] : n \in RouteFileNames, len \in 0..MaxChunks}
    \cup {[kind |-> "file", name |-> n, type |-> t, readable |-> FALSE,
           text |-> Text(1)] : n \in RouteFileNames, t \in {"application/pdf", "image/png"}}
RouteFileLists == UNION {[1..n -> {NonFile} \cup RouteFiles] : n \in 0..MaxFiles}

\* toText(file): the text of a text, CSV or JSON file, the text extracted from a PDF or
\* DOCX file (null when the extraction throws), null for any other type
toText(file) ==
    IF file.type \in {"text/plain", "text/csv", "application/json"} THEN file.text
    ELSE IF file.type \in
              {"application/pdf",
               "application/vnd.openxmlformats-officedocument.wordprocessingml.document"}
    THEN IF file.readable THEN file.text ELSE Null
    ELSE Null

\* splitter.createDocuments([text], undefined, { chunkHeader }): one document per
\* piece, with the metadata the splitter writes (the position in the text)
createDocuments(text) ==
    [k \in 1..text.len |-> [pageContent |-> [piece |-> k], metadata |-> [loc |-> k]]]

\* documents.map((doc, index) => ({ id, chunkId, chunkIndex, pageContent, metadata }))
RouteChunk(entry, doc, index) ==
    [id |-> IF "id" \in DOMAIN doc.metadata THEN doc.metadata.id
            ELSE [name |-> entry.name, doc |-> index],
     chunkId |-> IF "chunkId" \in DOMAIN doc.metadata THEN doc.metadata.chunkId
                 ELSE [name |-> entry.name, chunk |-> index],
     chunkIndex |-> index,
     pageContent |-> doc.pageContent,
     metadata |-> [sourceFileName |-> entry.name, sourceMimeType |-> entry.type]
                  @@ doc.metadata]

\* for (const entry of rawFiles) { ... }: from the i-th entry on
RECURSIVE RouteLoop(_, _, _, _)
RouteLoop(rf, i, summaries, allChunks) ==
    IF i > Len(rf) THEN [summaries |-> summaries, allChunks |-> allChunks]
    ELSE IF rf[i].kind # "file" THEN RouteLoop(rf, i + 1, summaries, allChunks)
    ELSE IF toText(rf[i]) = Null \/ toText(rf[i]).len = 0
    THEN RouteLoop(rf, i + 1, summaries, allChunks)
    ELSE LET docs == createDocuments(toText(rf[i]))
             cs == [k \in 1..Len(docs) |-> RouteChunk(rf[i], docs[k], k - 1)]
         IN  RouteLoop(rf, i + 1,
                       Append(summaries,
                              [filename |-> rf[i].name, chunkCount |-> Len(cs),
                               preview |-> [k \in 1..Len(slice(cs, 0, 3)) |->
                                               cs[k].pageContent]]),
                       allChunks \o cs)

\* The form data of the request; the configuration file and the environment of the
\* server (one provider configured or no file, its API key set or not).
RouteInit ==
    /\ libInput \in {[fn |-> "POST", rawFiles |-> rf] : rf \in RouteFileLists}
    /\ libCall = NoCall
    /\ configFiles \in [ConfigPaths ->
                           {FileMissing,
                            [kind |-> "object",
                             providers |-> [k \in {"anthropic_claude"} |->
                                               ProviderConfigs[k]]]}]
    /\ env \in {{}, {"ANTHROPIC_API_KEY"}}
    /\ cachedConfig = Null
    /\ cachedPath = Null
    /\ configCalls = <<>>
    /\ DeckInit
    /\ ModerationInit

\* POST(request): the content type check, the loop over the uploaded files, the call
\* of generateQuizFromChunks(allChunks) and the response
RoutePost(contentType, courseId, reply) ==
    /\ libInput.fn = "POST"
    /\ libCall = NoCall
    /\ LET entries == libInput.rawFiles
           looped == RouteLoop(entries, 1, <<>>, <<>>)
           quiz == generateQuizFromChunks(looped.allChunks, <<>>, reply,
                                          [config |-> cachedConfig, path |-> cachedPath],
                                          configFiles, env)
           called == IsMultipart(contentType) /\ Len(entries) > 0
                     /\ Len(looped.summaries) > 0
           res ==
               IF ~IsMultipart(contentType)
               THEN jsonResponse([error |-> "Request must be multipart/form-data"], 400)
               ELSE IF Len(entries) = 0
               THEN jsonResponse([error |-> "No files uploaded"], 400)
               ELSE IF Len(looped.summaries) = 0
               THEN jsonResponse([error |-> "No supported files processed"], 415)
               ELSE IF quiz.ok
               THEN jsonResponse([message |-> "Flashcards generated successfully",
                                  provider |-> quiz.providerKey,
                                  chunkCount |-> Len(looped.allChunks),
                                  courseId |-> courseId,
                                  summaries |-> looped.summaries,
                                  flashcards |-> quiz.flashcards], 200)
               ELSE jsonResponse([error |-> "Failed to generate flashcards",
                                  details |-> IF quiz.thrown.isError
                                              THEN quiz.thrown.message
                                              ELSE [text |-> "Unknown error"],
                                  summaries |-> looped.summaries], 500)
       IN  /\ libCall' = [fn |-> "POST", contentType |-> contentType,
                          allChunks |-> IF IsMultipart(contentType) /\ Len(entries) > 0
                                        THEN looped.allChunks ELSE <<>>,
                          summaries |-> IF IsMultipart(contentType) /\ Len(entries) > 0
                                        THEN looped.summaries ELSE <<>>,
                          llmCalls |-> IF called THEN quiz.llmCalls ELSE 0,
                          response |-> res]
           /\ cachedConfig' = IF called THEN quiz.cache.config ELSE cachedConfig
           /\ cachedPath' = IF called THEN quiz.cache.path ELSE cachedPath
    /\ UNCHANGED <<trackerVars, uploadVars, raceVars, libInput, configFiles, env, deckVars, modVars, configCalls>>

ParseNext ==
    \/ \E n \in 0..MaxChunks, m \in 0..MaxCards : ParseCall(n, m)
    \/ \E n \in 0..MaxChunks, o \in FlashcardOptionsSet :
          GenerateFlashcardsCall(n, o, Resolves(libInput.raw))

-----------------------------------------------------------------------------
(* Specifications *)

HandleUploadNext ==
    \/ \E m \in Methods, fd \in BOOLEAN, o \in FlashcardOptionsSet : HandleUploadStart(m, fd, o)
    \/ FormDataRejects
    \/ \E rf \in RawFileLists : FormDataResolves(rf, NoField)
    \/ QueueStep
    \/ \E t \in {NoCaught} \cup Thrown("storage") : SaveStep(t)
    \/ ParsingStep
    \/ \E plan \in [1..Len(uploadedFiles) -> LoaderOutcomes] : LoadStep(plan)
    \/ GeneratingStep
    \/ \E n \in 0..MaxChunks : SplitStep(n, NoCaught)
    \/ \E t \in Thrown("splitter") : SplitStep(0, t)
    \/ \E reply \in LLMReplies : GenerateStep(reply)
    \/ \E t \in {NoCaught} \cup Thrown("repository") : PersistStep(t)
    \/ CompleteStep
    \/ CatchStep

ExternalNext ==
    \E s \in JobStatus : UpdateJobStatusCall(ExternalJob, s, NoPayload)

TrackerNext ==
    \E j \in ExternalJobs, s \in JobStatus, p \in ExternalPayloads :
        UpdateJobStatusCall(j, s, p)

RaceNext ==
    \/ \E p \in Procs, s \in JobStatus : RaceGet(p, s)
    \/ \E p \in Procs : RaceSet(p)

Init == TrackerInit({"faithful"}) /\ UploadInit /\ RaceInit /\ LibInit
InitDouble ==
    TrackerInit({"faithful", "stub", "noget"}) /\ UploadInit /\ RaceInit /\ LibInit

\* One handleUpload invocation with a tracker whose get returns the last status set,
\* after direct updateJobStatus calls on another job.
Next == HandleUploadNext \/ ExternalNext
Spec == Init /\ [][Next]_vars

\* The same with the status tracker double of the handleUpload test (get resolves
\* undefined, set stores nothing) or a tracker without the optional get.
SpecDouble == InitDouble /\ [][Next]_vars

\* Direct updateJobStatus calls only.
SpecTracker == Init /\ [][TrackerNext]_vars

\* Two updateJobStatus calls on one job, interleaved at their awaits.
SpecRace == Init /\ [][RaceNext]_vars

\* One direct call of parseFlashcardsResponse or of generateFlashcards.
InitParse == TrackerInit({"faithful"}) /\ UploadInit /\ RaceInit /\ ParseInit
SpecParse == InitParse /\ [][ParseNext]_vars

\* One direct call of generateFlashcards or of generateQuizFromChunks.
InitQuiz == TrackerInit({"faithful"}) /\ UploadInit /\ RaceInit /\ QuizInit
QuizNext ==
    \/ \E n \in 0..MaxChunks, o \in FlashcardOptionsSet, reply \in LLMReplies :
          GenerateFlashcardsCall(n, o, reply)
    \/ \E n \in 0..MaxChunks, o \in QuizOptionsSet, reply \in LLMReplies :
          GenerateQuizCall(n, o, reply)
SpecQuiz == InitQuiz /\ [][QuizNext]_vars

\* One direct call of loadDocuments.
InitLoad == TrackerInit({"faithful"}) /\ UploadInit /\ RaceInit /\ LoadInit
LoadNext == LoadDocumentsCall
SpecLoad == InitLoad /\ [][LoadNext]_vars

\* One request to the document-parser upload route.
InitRoute == TrackerInit({"faithful"}) /\ UploadInit /\ RaceInit /\ RouteInit
RouteNext ==
    \E ct \in ContentTypes, courseId \in {Null, [kind |-> "field", value |-> "CS101"]},
       reply \in LLMReplies : RoutePost(ct, courseId, reply)
SpecRoute == InitRoute /\ [][RouteNext]_vars

\* POST /api/decks requests, at most two at a time.
DeckNext ==
    \/ \E p \in DeckProcs, body \in ValidBodies \cup InvalidBodies, getOk \in BOOLEAN :
          DeckPostStart(p, body, getOk)
    \/ \E p \in DeckProcs, writeOk \in BOOLEAN : DeckPostWrite(p, writeOk)
SpecDeck == Init /\ [][DeckNext]_vars

\* One handleUpload invocation with a status tracker whose store may become
\* unreachable and reachable again while the invocation runs.
OutageNext == HandleUploadNext \/ TrackerOutage
SpecOutage == Init /\ [][OutageNext]_vars

\* Direct calls of loadLLMConfig and resetLLMConfigCache, and edits of the files.
InitConfig == TrackerInit({"faithful"}) /\ UploadInit /\ RaceInit /\ ConfigInit
ConfigNext ==
    \/ \E configPath \in LoadPaths : LoadConfigCall(configPath)
    \/ ResetConfigCall
    \/ \E configPath \in LoadPaths, contents \in WrittenContents :
          WriteConfigFile(configPath, contents)
SpecConfig == InitConfig /\ [][ConfigNext]_vars

\* One handleUpload invocation of a POST request with one valid file, with and without
\* a topic field, the injected options with and without a topic.
OneValidFile ==
    <<[kind |-> "file", name |-> "notes", type |-> "text/plain",
       size |-> DEFAULT_MAX_FILE_SIZE_BYTES]>>
OptionsNext ==
    \/ \E o \in TopicOptionsSet : HandleUploadStart("POST", TRUE, o)
    \/ \E topicField \in TopicFields : FormDataResolves(OneValidFile, topicField)
    \/ QueueStep
    \/ SaveStep(NoCaught)
    \/ ParsingStep
    \/ \E plan \in [1..Len(uploadedFiles) -> {Loads(<<PageDoc>>)}] : LoadStep(plan)
    \/ GeneratingStep
    \/ \E n \in 0..MaxChunks : SplitStep(n, NoCaught)
    \/ \E reply \in LLMReplies : GenerateStep(reply)
    \/ \E t \in {NoCaught} \cup Thrown("repository") : PersistStep(t)
    \/ CompleteStep
    \/ CatchStep
SpecOptions == Init /\ [][OptionsNext]_vars

\* Uploads, document pages and admin pages open at once, every Firestore write
\* succeeding or failing.
ModerationNext ==
    \/ \E user \in UserIds \cup {NoUser}, complete \in BOOLEAN, stored \in BOOLEAN :
          HandleSubmit(user, complete, stored)
    \/ \E p \in DocPages, user \in UserIds \cup {NoUser}, documentId \in 1..MaxUploads :
          FetchDocument(p, user, documentId)
    \/ \E p \in DocPages, ok \in BOOLEAN : HandleRequestPublicUpdate(p, ok)
    \/ \E p \in DocPages, ok \in BOOLEAN : HandleRequestPublicAddReview(p, ok)
    \/ \E a \in AdminPages : FetchPendingReviews(a)
    \/ \E a \in AdminPages, review \in 1..MaxReviews, ok \in BOOLEAN :
          HandleApproveDocument(a, review, ok)
    \/ \E a \in AdminPages, ok \in BOOLEAN : HandleApproveReview(a, ok)
    \/ \E a \in AdminPages, review \in 1..MaxReviews, reason \in Reasons, ok \in BOOLEAN :
          HandleRejectDocument(a, review, reason, ok)
    \/ \E a \in AdminPages, ok \in BOOLEAN : HandleRejectReview(a, ok)
SpecModeration == Init /\ [][ModerationNext]_vars


-----------------------------------------------------------------------------
(* The transition table of the job status state machine, as specified *)

SpecTable ==
    {<<"none", "queued">>,
     <<"queued", "parsing">>, <<"queued", "failed">>,
     <<"parsing", "generating">>, <<"parsing", "failed">>,
     <<"generating", "complete">>, <<"generating", "failed">>}

\* log is a path of the table starting from "no record"
IsTablePath(log) ==
    /\ Len(log) > 0 => <<"none", log[1]>> \in SpecTable
    /\ \A i \in 1..(Len(log) - 1) : <<log[i], log[i + 1]>> \in SpecTable

Terminal == {"complete", "failed"}

-----------------------------------------------------------------------------
(* C1..C10 *)

\* C1: with a tracker whose get returns the last status set and one writer per job,
\* the statuses persisted through tracker.set for every job form a path of the
\* transition table; the sequence handleUpload persists never goes from queued
\* directly to generating or complete.
C1_PersistedStatusesFollowTable ==
    /\ \A j \in JobIds : IsTablePath(setLog[j])
    /\ \A i \in 1..(Len(setLog[UploadJob]) - 1) :
          setLog[UploadJob][i] = "queued"
              => setLog[UploadJob][i + 1] \notin {"generating", "complete"}

C1_Witness ==
    /\ setLog[UploadJob] = <<"queued", "parsing", "generating", "complete">>
    /\ setLog[ExternalJob] = <<"queued", "parsing", "failed">>

\* C2: an updateJobStatus call succeeds exactly when the transition from the job's
\* persisted status (none without a record) to the requested status is in the table;
\* a successful call persists the requested status and payload through one
\* tracker.set; every other call fails with the initial-transition error (no record)
\* or the illegal-transition error (record), calls no tracker.set and leaves the
\* persisted status and payload unchanged.
C2_SucceedsExactlyOnTableTransitions ==
    [][(updCall' # updCall \/ setLog' # setLog) =>
          LET c == updCall'
              prev == statusMap[c.jobId]
          IN /\ (c.outcome = "ok") <=> (<<prev, c.status>> \in SpecTable)
             /\ c.outcome = "ok" =>
                   /\ statusMap' = [statusMap EXCEPT ![c.jobId] = c.status]
                   /\ setLog' = [setLog EXCEPT ![c.jobId] = Append(@, c.status)]
             /\ c.outcome # "ok" =>
                   /\ c.outcome = IF prev = "none" THEN "must_start_queued"
                                                   ELSE "invalid_transition"
                   /\ statusMap' = statusMap
                   /\ payloadMap' = payloadMap
                   /\ setLog' = setLog]_vars

C2_Witness ==
    /\ statusMap["job-x"] = "queued"
    /\ updCall = [jobId |-> "job-x", status |-> "complete", outcome |-> "invalid_transition"]
    /\ statusMap["job-y"] = "none"
    /\ setLog["job-x"] = <<"queued">>

\* C3: once the persisted status of a job is complete or failed, every later
\* updateJobStatus call for that job fails, whatever status it requests, and the
\* persisted status, payload and set history of the job never change again.
C3_TerminalStatusesAreFinal ==
    [][\A j \in JobIds :
          statusMap[j] \in Terminal =>
              /\ statusMap'[j] = statusMap[j]
              /\ payloadMap'[j] = payloadMap[j]
              /\ setLog'[j] = setLog[j]
              /\ (updCall' # updCall /\ updCall'.jobId = j) => updCall'.outcome # "ok"]_vars

C3_Witness ==
    /\ statusMap["job-x"] = "failed"
    /\ updCall = [jobId |-> "job-x", status |-> "queued", outcome |-> "invalid_transition"]
    /\ statusMap["job-y"] = "complete"

\* C4: for every interleaving of two updateJobStatus calls on the same job, each a
\* tracker.get followed by a tracker.set, the statuses persisted for that job form a
\* path of the transition table.
C4_InterleavedCallsFollowTable == IsTablePath(setLog[RaceJob])

\* C5: once the job is queued, if a stage (storage.saveFile, loadDocuments, the
\* splitter, the LLM client, response parsing, repository.saveFlashcards) throws,
\* handleUpload does not reject: it persists status failed for the job, with payload
\* error equal to the thrown Error's message, and resolves to a 500 response whose
\* body carries that message and the job id.
ThrowingStages == {"storage", "loader", "splitter", "claude", "parse", "repository"}

C6_NeverRejects == pc # "rejected"

\* C7: for a request with at least one valid file (a job is created), when no
\* collaborator throws and the LLM response parses, handleUpload resolves to 200 with
\* body {jobId, flashcardCount, message}, flashcardCount is the number of flashcards
\* generated, and the statuses persisted for the job are exactly queued, parsing,
\* generating, complete.
C7_SuccessfulUploadCompletes ==
    (pc \in {"done", "rejected"} /\ jobId # <<>> /\ caught.stage \notin ThrowingStages) =>
        /\ pc = "done"
        /\ response = [status |-> 200,
                       body |-> [jobId |-> UploadJob,
                                 flashcardCount |-> Len(flashcards),
                                 message |-> "Flashcards generated successfully"]]
        /\ setLog[UploadJob] = <<"queued", "parsing", "generating", "complete">>
        /\ statusMap[UploadJob] = "complete"
        /\ Len(flashcards) > 0 =>
              /\ Len(repoStore) = 1
              /\ repoStore[1].jobId = UploadJob
              /\ repoStore[1].count = Len(flashcards)

C7_Witness ==
    /\ pc = "done"
    /\ response.status = 200
    /\ Len(flashcards) = 1
    /\ Len(files) = 2
    /\ setLog[UploadJob] = <<"queued", "parsing", "generating", "complete">>

\* C8: with the status tracker double of the handleUpload test (get resolves
\* undefined for every job, set stores nothing), an upload whose collaborators all
\* succeed resolves to 200 with flashcardCount equal to the number of generated
\* cards, after calling storage.saveFile and, when cards were generated,
\* repository.saveFlashcards.
C8_UploadSucceedsWithTestDouble ==
    (trackerKind = "stub" /\ pc \in {"done", "rejected"} /\ jobId # <<>>
        /\ caught.stage \notin ThrowingStages) =>
        /\ pc = "done"
        /\ response.status = 200
        /\ response.body.flashcardCount = Len(flashcards)
        /\ calls.saveFile = files
        /\ Len(flashcards) > 0 => calls.saveFlashcards = 1

\* C9: a request rejected at validation (method not POST: 405; no formData function,
\* empty files list, no entry passing validation: 400) creates no job: no job id is
\* generated and the status tracker, storage, loaders, splitter, LLM client and
\* repository are not called.
SpecAccepts(entry) ==
    /\ entry.kind = "file"
    /\ entry.type \in {"application/pdf",
                       "application/vnd.openxmlformats-officedocument.wordprocessingml.document",
                       "text/plain", "text/csv", "image/png", "image/jpeg"}
    /\ entry.size <= 25 * 1024 * 1024

IsPost(method) == method \in {"POST", "post"}

NoJobCreated ==
    /\ jobId = <<>>
    /\ calls = NoCalls
    /\ statusMap[UploadJob] = "none"
    /\ setLog[UploadJob] = <<>>
    /\ repoStore = <<>>

C9_ValidationRejectionCreatesNoJob ==
    /\ (pc = "done" /\ ~IsPost(request.method)) => (response.status = 405 /\ NoJobCreated)
    /\ (pc = "done" /\ IsPost(request.method) /\ ~request.hasFormData) =>
          (response.status = 400 /\ NoJobCreated)
    /\ (pc = "done" /\ IsPost(request.method) /\ request.hasFormData
          /\ \A i \in 1..Len(rawFiles) : ~SpecAccepts(rawFiles[i])) =>
          (response.status = 400 /\ NoJobCreated)
    /\ response.status \in {400, 405} => NoJobCreated

C9_Witness ==
    /\ pc = "done"
    /\ response.status = 400
    /\ Len(rawFiles) = 2
    /\ rawFiles[1].type = "image/gif"
    /\ rawFiles[2].size = 25 * 1024 * 1024 + 1
    /\ NoJobCreated

\* C10: validation partitions the submitted entries: the accepted files are exactly
\* the File entries with an allowed media type and a size of at most the maximum, in
\* order; every other entry adds exactly one message; only accepted files reach
\* storage.saveFile; the batch proceeds when a file is accepted, and otherwise the
\* response is 400 'No valid files found' with details equal to the error list.
C10_ValidationPartitionsEntries ==
    Len(rawFiles) > 0 =>
        /\ files = SelectSeq(rawFiles, SpecAccepts)
        /\ Len(errors) = Len(rawFiles) - Len(files)
        /\ calls.saveFile \in {<<>>, files}
        /\ Len(files) > 0 => (jobId = <<UploadJob>> /\ response.status # 400)
        /\ Len(files) = 0 =>
              /\ pc = "done"
              /\ response = [status |-> 400,
                             body |-> [error |-> "No valid files found", details |-> errors]]

C10_Witness ==
    /\ Len(rawFiles) = 2
    /\ rawFiles[1].type = "image/gif"
    /\ files = <<rawFiles[2]>>
    /\ rawFiles[2].size = 25 * 1024 * 1024
    /\ Len(errors) = 1
    /\ calls.saveFile = files
    /\ pc = "parsing"

\* C11: repository.saveFlashcards is called in a job exactly when generateFlashcards
\* returned at least one flashcard: it has been called once as soon as the persist
\* stage is past with a non-empty list, and never otherwise. When generation yields
\* zero flashcards the repository is not called and stores nothing, the job reaches
\* 'complete' with payload flashcardCount 0, and handleUpload resolves to 200 with
\* flashcardCount 0.
C11_SavesExactlyWhenCardsGenerated ==
    /\ calls.saveFlashcards = (IF Len(flashcards) > 0 /\ pc # "persist" THEN 1 ELSE 0)
    /\ Len(repoStore) <= calls.saveFlashcards
    /\ (pc \in {"done", "rejected"} /\ jobId # <<>> /\ caught = NoCaught
            /\ Len(flashcards) = 0) =>
          /\ pc = "done"
          /\ calls.saveFlashcards = 0
          /\ repoStore = <<>>
          /\ statusMap[UploadJob] = "complete"
          /\ payloadMap[UploadJob] = [flashcardCount |-> 0]
          /\ response.status = 200
          /\ response.body.flashcardCount = 0

C11_Witness ==
    /\ pc = "done"
    /\ Len(chunks) > 0
    /\ calls.claude = 1
    /\ Len(flashcards) = 0
    /\ caught = NoCaught
    /\ calls.saveFlashcards = 0
    /\ response.status = 200

\* The provider a generateQuizFromChunks call selects (options.providerKey, else the
\* default_provider of llm_options.yml, else 'anthropic_claude'), and whether it can
\* be invoked: the file holds an LLMConfig, the provider is configured in it with a
\* provider type that has a client, and its API key variable is set.
ConfigNow == configFiles[DEFAULT_CONFIG_PATH]
HasProviders == ConfigNow.kind = "object" /\ "providers" \in DOMAIN ConfigNow
DefaultProvider ==
    IF "default_provider" \in DOMAIN ConfigNow THEN ConfigNow.default_provider
    ELSE "anthropic_claude"
SelectedProvider ==
    IF "providerKey" \in DOMAIN libCall.options THEN libCall.options.providerKey
    ELSE DefaultProvider
KeyAvailable(k) ==
    /\ k \in DOMAIN ConfigNow.providers
    /\ ConfigNow.providers[k].env_var \in env
    /\ ConfigNow.providers[k].provider \in {"anthropic", "google", "openai"}
ProviderReady == HasProviders /\ KeyAvailable(SelectedProvider)

GenerateCalled == libCall.fn \in {"generateFlashcards", "generateQuizFromChunks"}

HasOpen(raw) == \E i \in 1..Len(raw) : raw[i] = LB
HasClose(raw) == \E i \in 1..Len(raw) : raw[i] = RB
FirstOpen(raw) == CHOOSE i \in 1..Len(raw) : raw[i] = LB /\ \A j \in 1..(i - 1) : raw[j] # LB
LastClose(raw) ==
    CHOOSE i \in 1..Len(raw) : raw[i] = RB /\ \A j \in (i + 1)..Len(raw) : raw[j] # RB
BracketText(raw) ==
    IF HasOpen(raw) /\ HasClose(raw) /\ FirstOpen(raw) <= LastClose(raw)
    THEN SubSeq(raw, FirstOpen(raw), LastClose(raw))
    ELSE <<>>

\* The front and back texts the claims expect for an entry of the parsed array.
ExpectedFront(entry) ==
    IF entry.t # "object" THEN ""
    ELSE IF "front" \in DOMAIN entry.fields THEN entry.fields["front"]
    ELSE IF "question" \in DOMAIN entry.fields THEN entry.fields["question"]
    ELSE ""
ExpectedBack(entry) ==
    IF entry.t # "object" THEN ""
    ELSE IF "back" \in DOMAIN entry.fields THEN entry.fields["back"]
    ELSE IF "answer" \in DOMAIN entry.fields THEN entry.fields["answer"]
    ELSE ""

\* C13: whenever the text between the first '[' and the last ']' parses to an array of
\* n entries, parseFlashcardsResponse called with maxCards >= 0 returns exactly
\* min(n, maxCards) flashcards, the i-th made from the i-th entry of the array.
C13_TruncatesToMaxCards ==
    (/\ libCall.fn = "parseFlashcardsResponse"
     /\ JSONparse(BracketText(libInput.raw)).ok) =>
        LET A == JSONparse(BracketText(libInput.raw)).value.items
            k == IF Len(A) < libCall.maxCards THEN Len(A) ELSE libCall.maxCards
        IN  /\ libCall.result.ok
            /\ Len(libCall.result.flashcards) = k
            /\ \A i \in 1..k :
                  /\ libCall.result.flashcards[i].id = [card |-> i - 1]
                  /\ libCall.result.flashcards[i].front = ExpectedFront(A[i])
                  /\ libCall.result.flashcards[i].back = ExpectedBack(A[i])

C13_Witness ==
    /\ libCall.fn = "parseFlashcardsResponse"
    /\ libInput.raw = <<LB>> \o CardQ2 \o CardQ1 \o <<RB>>
    /\ libCall.maxCards = 1
    /\ libCall.result.ok
    /\ Len(libCall.result.flashcards) = 1
    /\ libCall.result.flashcards[1].front = "Q2"

\* The flashcard objects of a text that is a list of the object texts CardQ1 and
\* CardQ2, as the front and back texts written in them.
RECURSIVE ObjectsOf(_)
ObjectsOf(s) ==
    IF s = <<>> THEN [ok |-> TRUE, entries |-> <<>>]
    ELSE IF Len(s) >= Len(CardQ1) /\ SubSeq(s, 1, Len(CardQ1)) = CardQ1
    THEN LET rest == ObjectsOf(SubSeq(s, Len(CardQ1) + 1, Len(s))) IN
         [ok |-> rest.ok,
          entries |-> IF rest.ok THEN <<[front |-> "Q1", back |-> "A1"]>> \o rest.entries
                      ELSE <<>>]
    ELSE IF Len(s) >= Len(CardQ2) /\ SubSeq(s, 1, Len(CardQ2)) = CardQ2
    THEN LET rest == ObjectsOf(SubSeq(s, Len(CardQ2) + 1, Len(s))) IN
         [ok |-> rest.ok,
          entries |-> IF rest.ok THEN <<[front |-> "Q2", back |-> "A2"]>> \o rest.entries
                      ELSE <<>>]
    ELSE [ok |-> FALSE, entries |-> <<>>]

\* raw = prefix + A + suffix with A = raw[i..j] a JSON array of flashcard objects, the
\* prefix made of the characters `before` and the suffix of the characters `after`.
IsWrappedArray(raw, i, j, before, after) ==
    /\ i < j
    /\ raw[i] = LB
    /\ raw[j] = RB
    /\ ObjectsOf(SubSeq(raw, i + 1, j - 1)).ok
    /\ \A k \in 1..(i - 1) : raw[k] \in before
    /\ \A k \in (j + 1)..Len(raw) : raw[k] \in after

\* parseFlashcardsResponse returned one flashcard per entry, up to maxCards, and
\* nothing else.
ReturnsEntries(result, entries, maxCards) ==
    /\ result.ok
    /\ Len(result.flashcards) =
          (IF Len(entries) < maxCards THEN Len(entries) ELSE maxCards)
    /\ \A n \in 1..Len(result.flashcards) :
          /\ result.flashcards[n].front = entries[n].front
          /\ result.flashcards[n].back = entries[n].back

\* C14 as claimed: for every raw = prefix + A + suffix with A a valid JSON array of
\* flashcard objects and prefix and suffix arbitrary prose (any characters, brackets
\* among them), parseFlashcardsResponse returns one flashcard per entry of A, front
\* and back taken from the entry, up to maxCards, and nothing else.
C14_ArrayInArbitraryProse ==
    libCall.fn = "parseFlashcardsResponse" =>
        \A i, j \in 1..Len(libInput.raw) :
            IsWrappedArray(libInput.raw, i, j,
                           {Prose, Space, LB, RB}, {Prose, Space, LB, RB}) =>
                ReturnsEntries(libCall.result,
                               ObjectsOf(SubSeq(libInput.raw, i + 1, j - 1)).entries,
                               libCall.maxCards)

\* C14 amended: the same for every prefix that holds no '[' and every suffix that
\* holds no ']'.
C14_ArrayInBracketFreeProse ==
    libCall.fn = "parseFlashcardsResponse" =>
        \A i, j \in 1..Len(libInput.raw) :
            IsWrappedArray(libInput.raw, i, j, {Prose, Space, RB}, {Prose, Space, LB}) =>
                ReturnsEntries(libCall.result,
                               ObjectsOf(SubSeq(libInput.raw, i + 1, j - 1)).entries,
                               libCall.maxCards)

\* 'Sure! [{"front":"Q1","back":"A1"}] Hope that helps!' yields exactly one flashcard
\* with front Q1 and back A1.
C14_Witness ==
    /\ libCall.fn = "parseFlashcardsResponse"
    /\ libInput.raw = <<Prose, LB>> \o CardQ1 \o <<RB, Prose>>
    /\ libCall.maxCards = 2
    /\ libCall.result.ok
    /\ Len(libCall.result.flashcards) = 1
    /\ libCall.result.flashcards[1].front = "Q1"
    /\ libCall.result.flashcards[1].back = "A1"

\* C15: parseFlashcardsResponse fails, returning no flashcards, with 'did not include
\* JSON array' whenever the raw text holds no '[' or no ']', and with 'JSON parse
\* failed' whenever it holds both and the text from the first '[' to the last ']' is
\* not valid JSON; generateFlashcards, called with chunks and an LLM client that
\* resolves to such a text, fails with the same error.
C15_ParseErrors ==
    (\/ libCall.fn = "parseFlashcardsResponse"
     \/ libCall.fn = "generateFlashcards" /\ Len(libCall.chunks) > 0) =>
        /\ (~HasOpen(libInput.raw) \/ ~HasClose(libInput.raw)) =>
              /\ ~libCall.result.ok
              /\ "flashcards" \notin DOMAIN libCall.result
              /\ libCall.result.thrown.isError
              /\ libCall.result.thrown.message =
                    [text |-> "Claude response did not include JSON array"]
        /\ (/\ HasOpen(libInput.raw)
            /\ HasClose(libInput.raw)
            /\ ~JSONparse(BracketText(libInput.raw)).ok) =>
              /\ ~libCall.result.ok
              /\ "flashcards" \notin DOMAIN libCall.result
              /\ libCall.result.thrown.isError
              /\ libCall.result.thrown.message =
                    [text |-> "Claude response JSON parse failed"]

C15_Witness ==
    /\ libCall.fn = "generateFlashcards"
    /\ Len(libCall.chunks) = 1
    /\ libInput.raw = <<Prose, RB, LB>>
    /\ ~libCall.result.ok
    /\ libCall.result.thrown.message = [text |-> "Claude response JSON parse failed"]
    /\ libCall.result.llmCalls = 1

\* C16: when the loader factory returns no loader for a file of the batch,
\* loadDocuments rejects with the Error 'No document loader registered for <mimeType>'
\* of that file and returns no documents at all, whatever the loaders of earlier files
\* extracted; a batch with a file that has no loader never resolves (the file is not
\* skipped).
C16_MissingLoaderFailsBatch ==
    libCall.fn = "loadDocuments" =>
        \A i \in 1..Len(libInput.files) :
            libInput.plan[i] = NoLoader =>
                /\ ~libCall.result.ok
                /\ "documents" \notin DOMAIN libCall.result
                /\ (\A j \in 1..(i - 1) : libInput.plan[j].kind = "docs") =>
                      /\ libCall.result.thrown.isError
                      /\ libCall.result.thrown.message =
                            [text |-> "No document loader registered for",
                             mimeType |-> libInput.files[i].mimeType]
                      /\ libCall.result.factoryCalls = i
                      /\ libCall.result.loadCalls = i - 1

C16_Witness ==
    /\ libCall.fn = "loadDocuments"
    /\ Len(libInput.files) = 2
    /\ libInput.plan[1] = Loads(<<PageDoc>>)
    /\ libInput.plan[2] = NoLoader
    /\ ~libCall.result.ok
    /\ libCall.result.thrown.message.text = "No document loader registered for"

\* The number of raw documents the loaders of files 1..i return.
RECURSIVE LoadedUpTo(_, _)
LoadedUpTo(plan, i) == IF i = 0 THEN 0 ELSE LoadedUpTo(plan, i - 1) + Len(plan[i].docs)

\* Every file of the batch has a loader and loadDocuments returned a list.
AllLoaded ==
    /\ libCall.fn = "loadDocuments"
    /\ \A i \in 1..Len(libInput.files) : libInput.plan[i].kind = "docs"
    /\ libCall.result.ok

\* C17 as claimed: for every batch of files that all have a loader, the list returned
\* by loadDocuments has at least as many documents as there are input files, and every
\* returned document's metadata.sourceFileId is the id of an input file.
C17_AtLeastOneDocumentPerFile ==
    AllLoaded =>
        /\ Len(libCall.result.documents) >= Len(libInput.files)
        /\ \A d \in 1..Len(libCall.result.documents) :
              \E i \in 1..Len(libInput.files) :
                  libCall.result.documents[d].metadata.sourceFileId = libInput.files[i].id

\* C17 amended: the list returned holds exactly the documents the loaders returned,
\* file by file in input order (so at least as many documents as files whenever every
\* loader returns at least one), and the metadata.sourceFileId of every returned
\* document is the id of the file whose loader produced it, also when the loader
\* supplied a sourceFileId of its own.
C17_DocumentsCarryTheirFileId ==
    AllLoaded =>
        /\ Len(libCall.result.documents) = LoadedUpTo(libInput.plan, Len(libInput.files))
        /\ (\A i \in 1..Len(libInput.files) : Len(libInput.plan[i].docs) >= 1) =>
              Len(libCall.result.documents) >= Len(libInput.files)
        /\ \A i \in 1..Len(libInput.files) :
              \A k \in 1..Len(libInput.plan[i].docs) :
                  libCall.result.documents[LoadedUpTo(libInput.plan, i - 1) + k]
                      .metadata.sourceFileId = libInput.files[i].id

C17_Witness ==
    /\ AllLoaded
    /\ Len(libInput.files) = 2
    /\ libInput.plan[1] = Loads(<<>>)
    /\ libInput.plan[2] = Loads(<<ForeignDoc>>)
    /\ Len(libCall.result.documents) = 1
    /\ libCall.result.documents[1].metadata.sourceFileId = StoredId(2)

\* C19: when the API key of the default provider is not set but the key of another
\* configured provider is, generateQuizFromChunks (called with chunks and no provider
\* key, the provider answering with a well-formed array) does not fail and uses a
\* provider whose key is available.
C19_UsesFirstProviderWithKey ==
    (/\ libCall.fn = "generateQuizFromChunks"
     /\ Len(libCall.chunks) > 0
     /\ "providerKey" \notin DOMAIN libCall.options
     /\ HasProviders
     /\ DefaultProvider \in DOMAIN ConfigNow.providers
     /\ ConfigNow.providers[DefaultProvider].env_var \notin env
     /\ \E k \in DOMAIN ConfigNow.providers : KeyAvailable(k)
     /\ libCall.reply.kind = "text"
     /\ JSONparse(BracketText(libCall.reply.raw)).ok) =>
        /\ libCall.result.ok
        /\ KeyAvailable(libCall.result.providerKey)

\* C18 (first half): in every run of the document-parser upload route, the chunkId
\* values of all chunks produced in that run are pairwise distinct.
ChunkIdsDistinct ==
    libCall.fn = "POST" =>
        \A i, j \in 1..Len(libCall.allChunks) :
            i # j => libCall.allChunks[i].chunkId # libCall.allChunks[j].chunkId

\* The chunks of the k-th processed file start after those of the files before it.
RECURSIVE ChunksBefore(_, _)
ChunksBefore(summaries, k) ==
    IF k <= 1 THEN 0 ELSE ChunksBefore(summaries, k - 1) + summaries[k - 1].chunkCount

\* C18 (second half): for each source file the chunkIndex values of its chunks are
\* exactly 0, 1, ..., n-1 in order.
ChunkIndexContiguous ==
    libCall.fn = "POST" =>
        /\ Len(libCall.allChunks)
              = ChunksBefore(libCall.summaries, Len(libCall.summaries) + 1)
        /\ \A k \in 1..Len(libCall.summaries) :
              \A x \in 1..libCall.summaries[k].chunkCount :
                 libCall.allChunks[ChunksBefore(libCall.summaries, k) + x].chunkIndex
                    = x - 1

\* C18: in every run of the document-parser upload route, the chunkId values of all
\* chunks produced in that run (across all uploaded files) are pairwise distinct, and
\* for each source file the chunkIndex values of its chunks are exactly 0, 1, ..., n-1
\* in order.
C18_ChunkIdsDistinctAndIndexContiguous == ChunkIdsDistinct /\ ChunkIndexContiguous

\* The concatenation of the flashcard lists of the first n logged requests.
RECURSIVE PostedUpTo(_)
PostedUpTo(n) == IF n = 0 THEN <<>> ELSE PostedUpTo(n - 1) \o deckLog[n].flashcards

\* The stored deck that POST requests for courseCode write (its document id is the
\* course code with an underscore for the space).
DeckOf(code) == deckStore[IF code = <<"CS", " ", "101">> THEN <<"CS", "_", "101">> ELSE code]

\* C20: after any sequence of successful, non-overlapping POST /api/decks requests for
\* the same courseCode, the deck's flashcards list is the concatenation of all posted
\* flashcard lists in request order, totalCards equals the length of that list, and
\* contributors contains every userId that posted, each once.
C20_DeckAccumulatesPosts ==
    (/\ ~deckOverlap
     /\ Len(deckLog) > 0
     /\ \A n \in 1..Len(deckLog) : deckLog[n].courseCode = deckLog[1].courseCode) =>
        LET deck == DeckOf(deckLog[1].courseCode)
        IN  /\ deck.exists
            /\ deck.flashcards = PostedUpTo(Len(deckLog))
            /\ deck.totalCards = Len(deck.flashcards)
            /\ \A n \in 1..Len(deckLog) :
                  Cardinality({i \in 1..Len(deck.contributors) :
                                  deck.contributors[i] = deckLog[n].contributorId}) = 1

\* Two requests for "CS 101" one after the other, both by u1, with one card and then
\* two: the deck holds the three cards in that order and u1 once.
C20_Witness ==
    /\ ~deckOverlap
    /\ Len(deckLog) = 2
    /\ \A n \in 1..2 : deckLog[n].courseCode = <<"CS", " ", "101">>
    /\ Len(deckLog[1].flashcards) = 1
    /\ Len(deckLog[2].flashcards) = 2
    /\ deckLog[1].contributorId = "u1"
    /\ deckLog[2].contributorId = "u1"
    /\ deckStore[<<"CS", "_", "101">>].totalCards = 3
    /\ deckStore[<<"CS", "_", "101">>].flashcards[1].front = "Q1"
    /\ deckStore[<<"CS", "_", "101">>].flashcards[2].front = "Q1"
    /\ deckStore[<<"CS", "_", "101">>].flashcards[3].front = "Q2"
    /\ deckStore[<<"CS", "_", "101">>].contributors = <<"u1">>

\* C22: every status transition made by handleUpload carries its stage payload: queued
\* and parsing carry the file summaries, generating carries documentCount equal to the
\* number of loaded documents, and complete carries both the chunk count and the
\* flashcard count of the run.
C22_TransitionsCarryStagePayload ==
    LET payload == payloadMap[UploadJob] IN
    /\ statusMap[UploadJob] = "queued" => payload = [files |-> Summaries(files)]
    /\ statusMap[UploadJob] = "parsing" =>
          payload = [files |-> UploadedSummaries(uploadedFiles)]
    /\ statusMap[UploadJob] = "generating" => payload = [documentCount |-> Len(documents)]
    /\ statusMap[UploadJob] = "complete" =>
          /\ DOMAIN payload = {"chunkCount", "flashcardCount"}
          /\ payload.chunkCount = Len(chunks)
          /\ payload.flashcardCount = Len(flashcards)

\* C25: every job that handleUpload has persisted as queued has a terminal persisted
\* status (complete or failed) by the time handleUpload returns or throws, whatever
\* stages succeed or fail, with a status tracker whose get and set calls succeed.
C25_QueuedJobsEndTerminal ==
    (/\ pc \in {"done", "rejected"}
     /\ trackerKind \in {"faithful", "stub", "noget"}
     /\ statusMap[UploadJob] # "none") =>
        statusMap[UploadJob] \in {"complete", "failed"}

\* C26: in every execution of handleUpload, if repository.saveFlashcards succeeded for
\* a job, the job's final persisted status is complete and the response is HTTP 200;
\* a job whose final status is failed has no flashcards stored in the repository.
C26_FlashcardsStoredOnlyForCompleteJobs ==
    pc \in {"done", "rejected"} =>
        /\ (\E k \in 1..Len(repoStore) : repoStore[k].jobId = UploadJob) =>
              /\ statusMap[UploadJob] = "complete"
              /\ response.status = 200
        /\ (jobId # <<>> /\ statusMap[UploadJob] = "failed") =>
              ~ \E k \in 1..Len(repoStore) : repoStore[k].jobId = UploadJob

\* An entry of the parsed array that carries no sourceChunkIds array.
NoChunkIdArray(entry) ==
    ~ (/\ entry.t = "object"
       /\ "sourceChunkIds" \in DOMAIN entry.fields
       /\ entry.fields["sourceChunkIds"].t = "array")

\* C23 as claimed: for the card at position i of the parsed response that carries no
\* sourceChunkIds array, parseFlashcardsResponse sets sourceChunkIds to the single
\* chunkId of the chunk at position i of the chunk list, for every i below the number
\* of returned cards, also when the response has more cards than there are chunks.
C23_FallbackIsChunkAtSamePosition ==
    (/\ libCall.fn = "parseFlashcardsResponse"
     /\ libCall.result.ok) =>
        LET A == JSONparse(BracketText(libInput.raw)).value.items IN
        \A i \in 1..Len(libCall.result.flashcards) :
            NoChunkIdArray(A[i]) =>
                /\ i <= Len(libCall.chunks)
                /\ libCall.result.flashcards[i].sourceChunkIds
                      = <<libCall.chunks[i].chunkId>>

\* C23 (amended): for the card at position i that carries no sourceChunkIds array,
\* sourceChunkIds is the single chunkId of the chunk at position i when the chunk list
\* has a chunk at position i, and the empty list when it has not.
C23_FallbackIsChunkAtSamePositionIfAny ==
    (/\ libCall.fn = "parseFlashcardsResponse"
     /\ libCall.result.ok) =>
        LET A == JSONparse(BracketText(libInput.raw)).value.items IN
        \A i \in 1..Len(libCall.result.flashcards) :
            NoChunkIdArray(A[i]) =>
                libCall.result.flashcards[i].sourceChunkIds
                   = IF i <= Len(libCall.chunks) THEN <<libCall.chunks[i].chunkId>>
                     ELSE <<>>

\* Two cards without sourceChunkIds and two chunks: each card gets its own chunk.
C23_Witness ==
    /\ libCall.fn = "parseFlashcardsResponse"
    /\ libInput.raw = <<LB>> \o CardQ1 \o CardQ1 \o <<RB>>
    /\ Len(libCall.chunks) = 2
    /\ libCall.result.ok
    /\ Len(libCall.result.flashcards) = 2
    /\ libCall.result.flashcards[1].sourceChunkIds = <<[chunk |-> 0]>>
    /\ libCall.result.flashcards[2].sourceChunkIds = <<[chunk |-> 1]>>

\* The i-th direct call is a loadLLMConfig of configPath.
IsLoad(i, configPath) ==
    configCalls[i].fn = "loadLLMConfig" /\ configCalls[i].path = configPath
IsReset(i) == configCalls[i].fn = "resetLLMConfigCache"

\* C24 as claimed: after a successful loadLLMConfig for a path, every later
\* loadLLMConfig for the same path returns the same cached configuration without
\* reading the file again, until resetLLMConfigCache is called; after a reset the next
\* loadLLMConfig reads the file again.
C24_LoadedOnceUntilReset ==
    /\ \A i, j \in 1..Len(configCalls), configPath \in LoadPaths :
          (/\ i < j
           /\ IsLoad(i, configPath) /\ configCalls[i].ok
           /\ IsLoad(j, configPath)
           /\ \A k \in (i + 1)..(j - 1) : ~IsReset(k)) =>
              /\ configCalls[j].ok
              /\ configCalls[j].config = configCalls[i].config
              /\ ~configCalls[j].read
    /\ \A j \in 2..Len(configCalls) :
          (IsReset(j - 1) /\ ~IsReset(j)) => configCalls[j].read

\* C24 (amended): the same, until resetLLMConfigCache is called or loadLLMConfig
\* succeeds for a different path.
C24_LoadedOnceUntilResetOrOtherPath ==
    /\ \A i, j \in 1..Len(configCalls), configPath \in LoadPaths :
          (/\ i < j
           /\ IsLoad(i, configPath) /\ configCalls[i].ok
           /\ IsLoad(j, configPath)
           /\ \A k \in (i + 1)..(j - 1) :
                 /\ ~IsReset(k)
                 /\ ~(configCalls[k].path # configPath /\ configCalls[k].ok)) =>
              /\ configCalls[j].ok
              /\ configCalls[j].config = configCalls[i].config
              /\ ~configCalls[j].read
    /\ \A j \in 2..Len(configCalls) :
          (IsReset(j - 1) /\ ~IsReset(j)) => configCalls[j].read

\* The default file is loaded, edited, and loaded again: the second call returns the
\* configuration of the first without reading; after a reset the third call reads.
C24_Witness ==
    /\ Len(configCalls) = 3
    /\ IsLoad(1, DEFAULT_CONFIG_PATH) /\ configCalls[1].ok /\ configCalls[1].read
    /\ IsLoad(2, DEFAULT_CONFIG_PATH) /\ ~configCalls[2].read
    /\ configCalls[2].config = configCalls[1].config
    /\ configCalls[2].config # configFiles[DEFAULT_CONFIG_PATH]
    /\ IsReset(3)

\* The options a run of handleUpload passed on: those of the prompt given to the LLM
\* client, and those recorded in the metadata given to repository.saveFlashcards.
RequestHasTopic == request.topic # NoField /\ request.topic.value # ""
ExpectedOptions ==
    IF RequestHasTopic
    THEN [topic |-> Topic(request.topic.value)] @@ deps.flashcardOptions
    ELSE deps.flashcardOptions

\* C27: the flashcard options handleUpload passes to generation and records in the
\* generation metadata are the injected deps.flashcardOptions with only the topic
\* replaced by the request's topic field when the request supplies one; a request
\* without a topic field leaves every injected option, an injected topic included,
\* unchanged.
C27_OnlySuppliedTopicReplaced ==
    /\ calls.claude > 0 =>
          /\ calls.prompt.tone = ExpectedOptions.tone
          /\ calls.prompt.maxCards = maxCardsOf(ExpectedOptions)
          /\ calls.prompt.topic = (IF "topic" \in DOMAIN ExpectedOptions
                                   THEN ExpectedOptions.topic
                                   ELSE Topic("Study Material"))
    /\ \A k \in 1..Len(repoStore) :
          /\ \A f \in DOMAIN ExpectedOptions :
                /\ f \in DOMAIN repoStore[k].options
                /\ repoStore[k].options[f] = ExpectedOptions[f]
          /\ \A f \in DOMAIN repoStore[k].options \ DOMAIN ExpectedOptions :
                repoStore[k].options[f] = Undefined

\* How often a card occurs in a list of flashcards.
CountIn(list, card) == Cardinality({i \in 1..Len(list) : list[i] = card})

\* C28: no posted flashcard is lost when POST /api/decks requests for the same
\* courseCode overlap: when two concurrent requests both returned status ok, whatever
\* the interleaving of their getDoc and updateDoc/setDoc steps, the stored deck
\* contains the flashcards of both and totalCards equals the stored list's length.
C28_OverlappingPostsLoseNoCard ==
    (/\ Len(deckLog) = 2
     /\ deckLog[1].courseCode = deckLog[2].courseCode
     /\ \A p \in DeckProcs : deckReq[p].pc = "done" /\ deckReq[p].response.status = 200) =>
        LET deck == DeckOf(deckLog[1].courseCode)
        IN  /\ deck.exists
            /\ \A n \in 1..2 : \A i \in 1..Len(deckLog[n].flashcards) :
                  CountIn(deck.flashcards, deckLog[n].flashcards[i])
                     >= CountIn(deckLog[1].flashcards, deckLog[n].flashcards[i])
                        + CountIn(deckLog[2].flashcards, deckLog[n].flashcards[i])
            /\ deck.totalCards = Len(deck.flashcards)

\* C29: flashcard identifiers are unique within a deck: after any sequence of
\* generation runs whose results are saved to the same course deck through
\* POST /api/decks, no two flashcards in the deck's flashcards list have the same id.
C29_FlashcardIdsUniqueInDeck ==
    \A d \in DeckIds :
        deckStore[d].exists =>
            \A i, j \in 1..Len(deckStore[d].flashcards) :
                i # j => deckStore[d].flashcards[i].id # deckStore[d].flashcards[j].id

\* C21: a document is publicly visible only after approval: a newly uploaded document
\* has status private and isPublic false, and after any sequence of upload,
\* request-public, approve and reject actions on a document, isPublic = true implies
\* status = 'approved'.
C21_PublicOnlyAfterApproval ==
    /\ [][Len(documentsCol') > Len(documentsCol) =>
             /\ documentsCol'[Len(documentsCol')].status = "private"
             /\ documentsCol'[Len(documentsCol')].isPublic = FALSE]_vars
    /\ [](\A d \in 1..Len(documentsCol) :
             documentsCol[d].isPublic = TRUE => documentsCol[d].status = "approved")

\* No handler of a document page or an admin page is between its two Firestore writes.
NoHandlerRunning ==
    /\ \A p \in DocPages : docPage[p].pc = "idle"
    /\ \A a \in AdminPages : adminPage[a].pc = "idle"

\* The review records of a document that have the given status.
ReviewsOf(d, status) ==
    {r \in 1..Len(reviewsCol) :
        reviewsCol[r].documentId = d /\ reviewsCol[r].status = status}

\* C30: document status and review records stay in step through moderation: in every
\* reachable state, including states reached when the second of the two Firestore
\* writes of request-public, approve or reject fails, a document has status
\* pending_review if and only if there is a document_reviews record for it with status
\* pending, and a document whose review record is approved (resp. rejected) has status
\* approved (resp. rejected). Stated of the states in which no handler is between its
\* two writes.
C30_StatusAndReviewsInStep ==
    NoHandlerRunning =>
        \A d \in 1..Len(documentsCol) :
            /\ documentsCol[d].status = "pending_review" <=> ReviewsOf(d, "pending") # {}
            /\ ReviewsOf(d, "approved") # {} => documentsCol[d].status = "approved"
            /\ ReviewsOf(d, "rejected") # {} => documentsCol[d].status = "rejected"

====
